---- MODULE Spec2Model ----
(***************************************************************************)
(* Terra-data: tile-grid planning, tile fetching, mosaic composition.      *)
(*                                                                         *)
(* The module models the scripts of the repository as state machines, one  *)
(* group of variables per entry point.  A specification runs one or more   *)
(* entry points; the groups it does not run stay idle.                     *)
(***************************************************************************)
EXTENDS Integers, Sequences, FiniteSets, TLC

VARIABLES
    \* calculate_world_tiles (complete-world-map-generator.py)
    cw_pc, cw_zoom, cw_x, cw_y, tiles,
    \* download_region_grid / download_global_coverage (direct-gibs-downloader.py)
    rg_pc, rg_layer, rg_zoom, rg_range, rg_x, rg_y, successful, failed, rg_log,
    \* download_and_composite (direct-gibs-downloader.py)
    dc_pc, dc_result,
    \* generate_complete_world_map / download_all_tiles / download_tile
    g_pc, entry, run, max_workers, fut, result, collected, successful_tiles,
    failed_count, files, requested, callFile, gen_result, stitch_raised,
                   cleanup, prev_ok,
    \* one call of a single-tile fetch: download_tile, download_single_tile,
    \* fetch_wmts_tile (ingest_worker.py), the per-tile step of export_wmts_image
    f_pc, f_fn, f_arg, f_file, f_net, f_write, f_body, f_requested, f_result,
    \* stitch_world_map (complete-world-map-generator.py) and _compose_frame
    \* (ingest_worker.py): the list of fetched tiles, the canvas, the loop index
    st_pc, st_fn, st_zoom, st_tiles, st_kind, st_i, world_map, tiles_placed, st_result,
    \* export_wmts_image followed by stitch_tiles (earthdata-image-exporter.py)
    ex_pc, ex_layer, ex_bbox, ex_width, ex_height, ex_zoom, ex_tiles, ex_i,
    tile_images, ex_offset, ex_result,
    \* main of batch-world-map-generator.py: the arguments, the dates found, the
    \* loop over the dates to process, the counters, what was printed at the end
    b_pc, available_dates, start_date, end_date, limit, dates_to_process, b_i,
    b_successful, b_failed, b_skipped, b_invoked, b_report, b_exit,
    \* generate_frames (ingest_worker.py): the dates given, the loop index, the
    \* URLs collected, the URLs _upload_to_storage returned, the value returned
    gf_pc, gf_dates, gf_i, frame_urls, uploaded, gf_result,
    \* create_video_from_frames / create_gif_from_frames
    \* (animation-video-generator.py): the call, the tool, the files, what was
    \* done so far, the value returned
    enc_pc, enc_fn, frames_dir_exists, n_frames, ffmpeg, palette_png, output_file,
    enc_events, enc_exit, enc_result,
    \* create_animation_frames (terra-world-map-generator.py): the sorted list of
    \* image files, the loop index, the frames written as <<img_date, i>>
    af_pc, image_files, af_i, anim_frames,
    \* one call of a bounding-box planner (_get_tile_coordinates of
    \* ingest_worker.py, get_tiles_for_bbox of earthdata-image-exporter.py)
    bp_pc, bp_fn, bp_bbox, bp_zoom, coordinates,
    \* main of the three scripts that take --zoom: the script, the zoom given,
    \* the dates the batch run found, the work done so far, the exit
    mn_pc, mn_script, mn_zoom, mn_dates, mn_i, mn_work, mn_exit,
    \* process_date_range (services/ingestor/src/main.py): the range, the jobs
    \* built, the task of each job, the semaphore, the number of times
    \* process_job was entered for each job, the results gathered
    pr_pc, pr_start, pr_end, jobs, task, semaphore, entered, results,
    \* two batch runs on the same output directory: the run, the zoom of each
    \* run, the dates, the loop index, the files of the output directory, the
    \* generator launches as <<run, date>>, the dates run 1 generated
    rr_pc, rr_run, rr_zooms, rr_dates, rr_i, rr_files, rr_launched, rr_generated,
    \* monitor_progress (scripts/animation-demo.py): max_wait and the time
    \* elapsed in units of the 5 seconds it sleeps, the polls as <<outcome,
    \* elapsed time at the loop check>>, the requests sent, the value returned
    mp_pc, max_wait, elapsed, polls, mp_requests, mp_result,
    \* process_job (services/ingestor/src/main.py): the job, the step reached,
    \* the raw file, the processed files, the uploads that returned, whether
    \* the metadata was stored, whether the local files were cleaned up, the
    \* status returned
    pj_pc, pj_job, raw_file, processed_files, uploaded_urls, metadata_stored,
    cleaned_up, pj_status,
    \* the remote endpoint as the scenario fixes it
    server,
    \* whether the imports under "if __name__ == '__main__'" have run
    main_imports

cwVars == <<cw_pc, cw_zoom, cw_x, cw_y, tiles>>
rgVars == <<rg_pc, rg_layer, rg_zoom, rg_range, rg_x, rg_y, successful, failed, rg_log>>
dcVars == <<dc_pc, dc_result>>
genVars == <<g_pc, entry, run, max_workers, fut, result, collected, successful_tiles,
             failed_count, files, requested, callFile, gen_result, stitch_raised,
                   cleanup, prev_ok>>
fVars == <<f_pc, f_fn, f_arg, f_file, f_net, f_write, f_body, f_requested, f_result>>
stVars == <<st_pc, st_fn, st_zoom, st_tiles, st_kind, st_i, world_map, tiles_placed,
            st_result>>
exVars == <<ex_pc, ex_layer, ex_bbox, ex_width, ex_height, ex_zoom, ex_tiles, ex_i,
            tile_images, ex_offset, ex_result>>
bVars == <<b_pc, available_dates, start_date, end_date, limit, dates_to_process, b_i,
           b_successful, b_failed, b_skipped, b_invoked, b_report, b_exit>>
gfVars == <<gf_pc, gf_dates, gf_i, frame_urls, uploaded, gf_result>>
encVars == <<enc_pc, enc_fn, frames_dir_exists, n_frames, ffmpeg, palette_png,
             output_file, enc_events, enc_exit, enc_result>>
afVars == <<af_pc, image_files, af_i, anim_frames>>
bpVars == <<bp_pc, bp_fn, bp_bbox, bp_zoom, coordinates>>
mnVars == <<mn_pc, mn_script, mn_zoom, mn_dates, mn_i, mn_work, mn_exit>>
prVars == <<pr_pc, pr_start, pr_end, jobs, task, semaphore, entered, results>>
rrVars == <<rr_pc, rr_run, rr_zooms, rr_dates, rr_i, rr_files, rr_launched,
            rr_generated>>
mpVars == <<mp_pc, max_wait, elapsed, polls, mp_requests, mp_result>>
pjVars == <<pj_pc, pj_job, raw_file, processed_files, uploaded_urls,
            metadata_stored, cleaned_up, pj_status>>
envVars == <<server, main_imports>>
vars == <<cwVars, rgVars, dcVars, genVars, fVars, stVars, exVars, bVars, gfVars, encVars, afVars, bpVars, mnVars, prVars, rrVars, mpVars, pjVars, envVars>>

\* What a step of one entry point leaves alone.
exceptCw == <<rgVars, genVars, fVars, stVars, exVars, dcVars, bVars, gfVars, encVars, afVars, bpVars, mnVars, prVars, rrVars, mpVars, pjVars, envVars>>
exceptRg == <<cwVars, genVars, fVars, stVars, exVars, dcVars, bVars, gfVars, encVars, afVars, bpVars, mnVars, prVars, rrVars, mpVars, pjVars, envVars>>
exceptGen == <<cwVars, rgVars, fVars, stVars, exVars, dcVars, bVars, gfVars, encVars, afVars, bpVars, mnVars, prVars, rrVars, mpVars, pjVars, envVars>>
exceptGenCw == <<rgVars, fVars, stVars, exVars, dcVars, bVars, gfVars, encVars, afVars, bpVars, mnVars, prVars, rrVars, mpVars, pjVars, envVars>>
exceptF == <<cwVars, rgVars, genVars, stVars, exVars, dcVars, bVars, gfVars, encVars, afVars, bpVars, mnVars, prVars, rrVars, mpVars, pjVars, envVars>>
exceptSt == <<cwVars, rgVars, genVars, fVars, exVars, dcVars, bVars, gfVars, encVars, afVars, bpVars, mnVars, prVars, rrVars, mpVars, pjVars, envVars>>
exceptEx == <<cwVars, rgVars, genVars, fVars, stVars, dcVars, bVars, gfVars, encVars, afVars, bpVars, mnVars, prVars, rrVars, mpVars, pjVars, envVars>>
exceptDc == <<cwVars, rgVars, genVars, fVars, stVars, exVars, bVars, gfVars, encVars, afVars, bpVars, mnVars, prVars, rrVars, mpVars, pjVars, envVars>>
exceptB == <<cwVars, rgVars, dcVars, genVars, fVars, stVars, exVars, gfVars, encVars, afVars, bpVars, mnVars, prVars, rrVars, mpVars, pjVars, envVars>>
exceptGf == <<cwVars, rgVars, dcVars, genVars, fVars, stVars, exVars, bVars, encVars, afVars, bpVars, mnVars, prVars, rrVars, mpVars, pjVars, envVars>>
exceptEnc == <<cwVars, rgVars, dcVars, genVars, fVars, stVars, exVars, bVars, gfVars, afVars, bpVars, mnVars, prVars, rrVars, mpVars, pjVars, envVars>>
exceptAf == <<cwVars, rgVars, dcVars, genVars, fVars, stVars, exVars, bVars, gfVars, encVars, bpVars, mnVars, prVars, rrVars, mpVars, pjVars, envVars>>
exceptBp == <<cwVars, rgVars, dcVars, genVars, fVars, stVars, exVars, bVars, gfVars, encVars, afVars, mnVars, prVars, rrVars, mpVars, pjVars, envVars>>
exceptMn == <<cwVars, rgVars, dcVars, genVars, fVars, stVars, exVars, bVars, gfVars, encVars, afVars, bpVars, prVars, rrVars, mpVars, pjVars, envVars>>
exceptPr == <<cwVars, rgVars, dcVars, genVars, fVars, stVars, exVars, bVars, gfVars, encVars, afVars, bpVars, mnVars, rrVars, mpVars, pjVars, envVars>>
exceptRr == <<cwVars, rgVars, dcVars, genVars, fVars, stVars, exVars, bVars, gfVars, encVars, afVars, bpVars, mnVars, prVars, mpVars, pjVars, envVars>>
exceptMp == <<cwVars, rgVars, dcVars, genVars, fVars, stVars, exVars, bVars, gfVars, encVars, afVars, bpVars, mnVars, prVars, rrVars, pjVars, envVars>>
exceptPj == <<cwVars, rgVars, dcVars, genVars, fVars, stVars, exVars, bVars, gfVars, encVars, afVars, bpVars, mnVars, prVars, rrVars, mpVars, envVars>>

(***************************************************************************)
(* Bounds of the exploration and constants of the program.                 *)
(***************************************************************************)
\* Largest zoom level of the system (the generator's main accepts 2..5).
MaxZoom == 5
\* Largest zoom whose grid is fetched with every outcome of every request.
MaxGridZoom == 1

\* Largest number of tiles of a grid fetched through the thread pool.
MaxPoolTiles == 4
\* Largest max_workers of a direct call of download_all_tiles.
MaxWorkers == 2
\* Runs of generate_complete_world_map on the same (date, zoom, output_dir).
MaxRuns == 2
\* download_all_tiles(..., max_workers=8)
DefaultMaxWorkers == 8

Pow2(n) == 2 ^ n

\* max_tile = 2 ** zoom_level
MaxTileDouble(zoom_level) == 2 * zoom_level
MaxTile(zoom_level) == Pow2(zoom_level)

(***************************************************************************)
(* The remote endpoint and the local disk: what one request and one write  *)
(* can answer.                                                             *)
(***************************************************************************)
NetOutcomes == {"ok200", "ok203", "http404", "http500", "timeout", "connerr"}
\* open(path, 'wb') and f.write(...) went through, or raised OSError.
WriteOutcomes == {"written", "oserror"}

\* The answers the endpoint gives in a scenario: any, always 200, never reachable.
ServerModes == {"any", "up", "down"}
NetOf(mode) ==
    CASE mode = "up" -> {"ok200"}
      [] mode = "down" -> {"connerr"}
      [] OTHER -> NetOutcomes
WriteOf(mode) == IF mode = "any" THEN WriteOutcomes ELSE {"written"}

\* requests.get raised (timeout, connection error) instead of returning.
NetRaised(net) == net \in {"timeout", "connerr"}
\* response.status_code of a request that returned.
StatusCode(net) ==
    CASE net = "ok200" -> 200
      [] net = "ok203" -> 203
      [] net = "http404" -> 404
      [] net = "http500" -> 500
      [] OTHER -> 0

(***************************************************************************)
(* calculate_world_tiles: the nested loop over x and y, one append a step. *)
(***************************************************************************)
CwIdle ==
    /\ cw_pc = "idle" /\ cw_zoom = 0 /\ cw_x = 0 /\ cw_y = 0 /\ tiles = <<>>

CwCall(z) ==
    /\ cw_pc = "loop" /\ cw_zoom = z /\ cw_x = 0 /\ cw_y = 0 /\ tiles = <<>>

\* for x in range(max_tile): for y in range(max_tile): tiles.append((zoom_level, x, y))
CalculateWorldTilesStep ==
    /\ cw_pc = "loop"
    /\ LET max_tile == MaxTile(cw_zoom)
           lastY == cw_y + 1 >= max_tile
           lastX == cw_x + 1 >= max_tile
       IN /\ tiles' = Append(tiles, <<cw_zoom, cw_x, cw_y>>)
          /\ cw_y' = IF lastY THEN 0 ELSE cw_y + 1
          /\ cw_x' = IF lastY THEN cw_x + 1 ELSE cw_x
          /\ cw_pc' = IF lastY /\ lastX THEN "done" ELSE "loop"
    /\ UNCHANGED cw_zoom

(***************************************************************************)
(* download_single_tile: one request, the bytes written to output_path.    *)
(***************************************************************************)
LayerKeys == {"terra_true_color", "terra_false_color", "terra_bands721",
              "aqua_true_color", "viirs_true_color"}

\* "raised" | "True" | "False"
DownloadSingleTile(layer_key, net, write) ==
    IF layer_key \notin LayerKeys THEN "raised"
    ELSE IF NetRaised(net) THEN "False"
    ELSE IF StatusCode(net) = 200
         THEN (IF write = "written" THEN "True" ELSE "False")
         ELSE "False"

(***************************************************************************)
(* download_region_grid, and download_global_coverage which calls it with  *)
(* the range 0 .. max_tile - 1 on both axes.                               *)
(***************************************************************************)
RgIdle ==
    /\ rg_pc = "idle" /\ rg_layer = "terra_true_color" /\ rg_zoom = 0
    /\ rg_range = <<0, 0, 0, 0>>
    /\ rg_x = 0 /\ rg_y = 0 /\ successful = 0 /\ failed = 0 /\ rg_log = <<>>

\* range = <<x_min, x_max, y_min, y_max>>
RgCall(layer_key, z, range) ==
    /\ rg_pc = "call" /\ rg_layer = layer_key /\ rg_zoom = z /\ rg_range = range
    /\ rg_x = 0 /\ rg_y = 0 /\ successful = 0 /\ failed = 0 /\ rg_log = <<>>

GlobalRange(z) == <<0, MaxTile(z) - 1, 0, MaxTile(z) - 1>>

\* The layer check, then the loop header: an empty range runs no iteration.
DownloadRegionGridEnter ==
    /\ rg_pc = "call"
    /\ IF rg_layer \notin LayerKeys
       THEN rg_pc' = "raised" /\ UNCHANGED <<rg_x, rg_y>>
       ELSE IF rg_range[1] > rg_range[2] \/ rg_range[3] > rg_range[4]
            THEN rg_pc' = "returned" /\ UNCHANGED <<rg_x, rg_y>>
            ELSE rg_pc' = "loop" /\ rg_x' = rg_range[1] /\ rg_y' = rg_range[3]
    /\ UNCHANGED <<rg_layer, rg_zoom, rg_range, successful, failed, rg_log>>

\* One iteration: download_single_tile for (x, y), then one of the two counters.
DownloadRegionGridStep ==
    /\ rg_pc = "loop"
    /\ \E net \in NetOf(server), write \in WriteOf(server) :
         LET res == DownloadSingleTile(rg_layer, net, write)
             lastY == rg_y = rg_range[4]
             lastX == rg_x = rg_range[2]
         IN /\ successful' = IF res = "True" THEN successful + 1 ELSE successful
            /\ failed' = IF res = "True" THEN failed ELSE failed + 1
            /\ rg_log' = Append(rg_log, <<rg_x, rg_y, res>>)
            /\ rg_y' = IF lastY THEN rg_range[3] ELSE rg_y + 1
            /\ rg_x' = IF lastY THEN rg_x + 1 ELSE rg_x
            /\ rg_pc' = IF lastY /\ lastX THEN "returned" ELSE "loop"
    /\ UNCHANGED <<rg_layer, rg_zoom, rg_range>>

(***************************************************************************)
(* download_and_composite: download_global_coverage into a temporary       *)
(* directory, create_composite_image from the files found there, and the   *)
(* directory removed in the finally block.                                 *)
(***************************************************************************)
\* Largest number of tiles of a grid fetched by download_and_composite.
MaxCompositeTiles == 16

DcIdle == dc_pc = "idle" /\ dc_result = "none"

\* The tile files the grid walk wrote: create_composite_image finds them with
\* os.listdir and reads x and y back from their names.
TileFiles(log) == {<<log[i][1], log[i][2]>> : i \in {j \in 1..Len(log) : log[j][3] = "True"}}

\* create_composite_image: False without tiles; composite.save is outside any
\* try block.  "True" | "False" | "raised"
CreateCompositeImage(found, write) ==
    IF found = {} THEN "False"
    ELSE IF write = "written" THEN "True" ELSE "raised"

\* if successful == 0: return False
NoneDownloaded(count) == count = 0

\* The statements after download_global_coverage returned or raised; the finally
\* block removes the directory and swallows the error of the removal.
DownloadAndCompositeReturn ==
    /\ dc_pc = "download" /\ rg_pc \in {"returned", "raised"}
    /\ IF rg_pc = "raised" THEN dc_result' = "raised"
       ELSE IF NoneDownloaded(successful) THEN dc_result' = "False"
       ELSE \E write \in WriteOf(server) :
               dc_result' = CreateCompositeImage(TileFiles(rg_log), write)
    /\ dc_pc' = "finished"

(***************************************************************************)
(* The batch orchestrator (batch-world-map-generator.py).  A date is a     *)
(* string; here it is written over two letters that compare as the digits  *)
(* of YYYY-MM-DD do, and strings compare as Python compares them.          *)
(***************************************************************************)
\* Largest number of dates found in the downloads directory.
MaxDates == 3
\* Largest --limit given.
MaxLimit == 3

Dates == {<<0, 0>>, <<0, 1>>, <<1, 0>>, <<1, 1>>}
\* What --start-date and --end-date can hold: a date, a prefix of one, or "".
DateArgs == {<<>>, <<0>>, <<1>>} \cup Dates

\* a < b on strings: the first differing letter decides, a proper prefix is less
LexLess(a, b) ==
    \E k \in 1..(Len(a) + 1) :
       /\ \A j \in 1..(k - 1) : j <= Len(b) /\ a[j] = b[j]
       /\ k <= Len(b)
       /\ k <= Len(a) => a[k] < b[k]
LexLeq(a, b) == a = b \/ LexLess(a, b)

\* sorted(list(dates))
SortedDates(S) ==
    CHOOSE q \in [1..Cardinality(S) -> S] :
       \A i, j \in 1..Cardinality(S) : i < j => LexLess(q[i], q[j])

\* An optional argument: absent (None) or given with a value.
Absent == [given |-> FALSE, val |-> <<>>]
NoLimit == [given |-> FALSE, val |-> 0]
Given(v) == [given |-> TRUE, val |-> v]

\* if args.start_date / if args.end_date: None and "" are both false
StringTruthy(arg) == arg.given /\ arg.val # <<>>
\* if args.limit: None and 0 are both false
LimitTruthy(arg) == arg.given /\ arg.val # 0

\* dates_to_process[:args.limit], a slice with a non-negative bound
Prefix(seq, n) == SubSeq(seq, 1, IF n <= Len(seq) THEN n ELSE Len(seq))

\* the three filters of main, in their order
FilterDates(available, start, end, lim) ==
    LET afterStart == IF StringTruthy(start)
                      THEN SelectSeq(available, LAMBDA d : LexLeq(start.val, d))
                      ELSE available
        beforeEnd == IF StringTruthy(end)
                     THEN SelectSeq(afterStart, LAMBDA d : LexLeq(d, end.val))
                     ELSE afterStart
    IN IF LimitTruthy(lim) THEN Prefix(beforeEnd, lim.val) ELSE beforeEnd

\* How the run of complete-world-map-generator.py for one date can end.
GenOutcomes == {"exit0", "exit1", "timeout", "launch_error"}
\* generate_world_map_for_date: True for return code 0, False for any other
\* code, for TimeoutExpired and for any other exception.
generate_world_map_for_date(outcome) == outcome = "exit0"

BIdle ==
    /\ b_pc = "idle" /\ available_dates = <<>> /\ start_date = Absent
    /\ end_date = Absent /\ limit = NoLimit /\ dates_to_process = <<>> /\ b_i = 0
    /\ b_successful = 0 /\ b_failed = 0 /\ b_skipped = {} /\ b_invoked = <<>>
    /\ b_report = "none" /\ b_exit = "none"

BCall(available, start, end, lim) ==
    /\ b_pc = "scan" /\ available_dates = available /\ start_date = start
    /\ end_date = end /\ limit = lim /\ dates_to_process = <<>> /\ b_i = 0
    /\ b_successful = 0 /\ b_failed = 0 /\ b_skipped = {} /\ b_invoked = <<>>
    /\ b_report = "none" /\ b_exit = "none"

\* if not available_dates: return 1; the filters; successful = 0; failed = 0
BatchFilter ==
    /\ b_pc = "scan"
    /\ IF available_dates = <<>>
       THEN b_pc' = "returned" /\ b_exit' = "1" /\ UNCHANGED <<dates_to_process, b_i>>
       ELSE /\ dates_to_process' = FilterDates(available_dates, start_date, end_date,
                                               limit)
            /\ b_i' = 1 /\ b_pc' = "loop" /\ UNCHANGED b_exit
    /\ UNCHANGED <<available_dates, start_date, end_date, limit, b_successful,
                   b_failed, b_skipped, b_invoked, b_report>>

\* for i, date in enumerate(dates_to_process, 1): the loop is over
AllProcessedAfterFirst(i, to_process) == i > Len(to_process) \/ i > 1
AllProcessed(i, to_process) == i > Len(to_process)

\* if os.path.exists(expected_path): successful += 1; continue
SkipUncounted(count) == count
SkipCounted(count) == count + 1

\* One iteration of the loop: the output file is there (successful += 1;
\* continue), or the generator is run for the date and one counter goes up.
BatchDate ==
    /\ b_pc = "loop" /\ ~AllProcessed(b_i, dates_to_process)
    /\ LET date == dates_to_process[b_i]
       IN \/ /\ b_successful' = SkipCounted(b_successful)
             /\ b_skipped' = b_skipped \cup {date}
             /\ UNCHANGED <<b_failed, b_invoked>>
          \/ \E outcome \in GenOutcomes :
                /\ b_invoked' = Append(b_invoked, <<date, outcome>>)
                /\ IF generate_world_map_for_date(outcome)
                   THEN b_successful' = b_successful + 1 /\ UNCHANGED b_failed
                   ELSE b_failed' = b_failed + 1 /\ UNCHANGED b_successful
                /\ UNCHANGED b_skipped
    /\ b_i' = b_i + 1
    /\ UNCHANGED <<b_pc, available_dates, start_date, end_date, limit,
                   dates_to_process, b_report, b_exit>>

\* The final prints: the two counts, then the success rate, a division by
\* len(dates_to_process); return 0 if failed == 0 else 1
BatchReport ==
    /\ b_pc = "loop" /\ AllProcessed(b_i, dates_to_process)
    /\ IF Len(dates_to_process) = 0
       THEN b_pc' = "raised" /\ b_report' = "counts" /\ b_exit' = "ZeroDivisionError"
       ELSE /\ b_pc' = "returned" /\ b_report' = "full"
            /\ b_exit' = IF b_failed = 0 THEN "0" ELSE "1"
    /\ UNCHANGED <<available_dates, start_date, end_date, limit, dates_to_process,
                   b_i, b_successful, b_failed, b_skipped, b_invoked>>

(***************************************************************************)
(* download_tile: the skip rule, the request, the write.                   *)
(* A file of the tiles directory is 0 (absent) or 1 (present).              *)
(***************************************************************************)
TileSet(z) == {<<z, x, y>> : x \in 0..(MaxTile(z) - 1), y \in 0..(MaxTile(z) - 1)}

\* if os.path.exists(tile_path): return tile_path, True
SkipNever(file) == FALSE
SkipExisting(file) == file # 0

\* <<result, file afterwards, whether a request was issued>>
DownloadTile(file, net, write) ==
    IF SkipExisting(file) THEN <<"ok", file, FALSE>>
    ELSE IF NetRaised(net) THEN <<"fail", file, TRUE>>
    ELSE IF StatusCode(net) = 200
         THEN (IF write = "written" THEN <<"ok", 1, TRUE>> ELSE <<"fail", file, TRUE>>)
         ELSE <<"fail", file, TRUE>>

(***************************************************************************)
(* download_all_tiles: a ThreadPoolExecutor of max_workers threads, one    *)
(* future a tile, the as_completed loop, the join at the end of the with   *)
(* block.                                                                  *)
(***************************************************************************)
NoTile == [t \in {} |-> 0]

GenIdle ==
    /\ g_pc = "idle" /\ entry = "none" /\ run = 0 /\ max_workers = 0
    /\ fut = NoTile /\ result = NoTile /\ collected = {} /\ successful_tiles = <<>>
    /\ failed_count = 0 /\ files = NoTile /\ requested = {} /\ callFile = NoTile
    /\ gen_result = "none" /\ stitch_raised = FALSE /\ cleanup = "none" /\ prev_ok = {}

\* A call on an output directory that holds no tile yet.
GenCall(e, z, m) ==
    /\ g_pc = "tiles" /\ entry = e /\ run = 1 /\ max_workers = m
    /\ fut = [t \in TileSet(z) |-> "new"]
    /\ result = [t \in TileSet(z) |-> "none"]
    /\ collected = {} /\ successful_tiles = <<>> /\ failed_count = 0
    /\ files = [t \in TileSet(z) |-> 0]
    /\ requested = {} /\ callFile = [t \in TileSet(z) |-> 0]
    /\ gen_result = "none" /\ stitch_raised = FALSE /\ cleanup = "none" /\ prev_ok = {}

Planned == {tiles[i] : i \in 1..Len(tiles)}
InFlight == {t \in DOMAIN fut : fut[t] = "running"}
Submitted == {t \in DOMAIN fut : fut[t] # "new"}

\* tiles = self.calculate_world_tiles(zoom_level) has returned
TilesPlanned ==
    /\ g_pc = "tiles" /\ cw_pc = "done"
    /\ g_pc' = "submit"
    /\ UNCHANGED <<entry, run, max_workers, fut, result, collected, successful_tiles,
                   failed_count, files, requested, callFile, gen_result, stitch_raised,
                   cleanup, prev_ok>>

\* executor.submit(self.download_tile, ...) for the next tile of the list
Submit ==
    /\ g_pc = "submit"
    /\ LET k == Cardinality(Submitted) + 1
       IN /\ k <= Len(tiles)
          /\ fut' = [fut EXCEPT ![tiles[k]] = "queued"]
          /\ g_pc' = IF k = Len(tiles) THEN "collect" ELSE "submit"
    /\ UNCHANGED <<entry, run, max_workers, result, collected, successful_tiles,
                   failed_count, files, requested, callFile, gen_result, stitch_raised,
                   cleanup, prev_ok>>

\* The executor runs a work item only on one of its max_workers threads.
ThreadFreeAlways(m, inflight) == TRUE
ThreadFree(m, inflight) == Cardinality(inflight) < m

\* The work queue is first in, first out: the oldest queued item is taken.
FirstQueued(t) ==
    /\ fut[t] = "queued"
    /\ \A i, j \in 1..Len(tiles) :
         (tiles[j] = t /\ i < j) => fut[tiles[i]] # "queued"

WorkerStart(t) ==
    /\ FirstQueued(t)
    /\ ThreadFree(max_workers, InFlight)
    /\ fut' = [fut EXCEPT ![t] = "running"]
    /\ callFile' = [callFile EXCEPT ![t] = files[t]]
    /\ UNCHANGED <<g_pc, entry, run, max_workers, result, collected, successful_tiles,
                   failed_count, files, requested, gen_result,
                   stitch_raised, cleanup, prev_ok>>

WorkerFinish(t) ==
    /\ fut[t] = "running"
    /\ \E net \in NetOf(server) :
       \E write \in (IF StatusCode(net) = 200 THEN WriteOf(server) ELSE {"written"}) :
         LET d == DownloadTile(files[t], net, write)
         IN /\ result' = [result EXCEPT ![t] = d[1]]
            /\ files' = [files EXCEPT ![t] = d[2]]
            /\ requested' = IF d[3] THEN requested \cup {t} ELSE requested
    /\ fut' = [fut EXCEPT ![t] = "done"]
    /\ UNCHANGED <<g_pc, entry, run, max_workers, collected, successful_tiles,
                   failed_count, callFile, gen_result, stitch_raised,
                   cleanup, prev_ok>>

\* if success and tile_path: successful_tiles.append(...) else: failed_count += 1
FailedCountKept(count, res) == count
FailedCountAfter(count, res) == IF res = "ok" THEN count ELSE count + 1

\* One iteration of "for i, future in enumerate(as_completed(future_to_tile))".
Collect(t) ==
    /\ g_pc = "collect"
    /\ fut[t] = "done" /\ t \notin collected
    /\ collected' = collected \cup {t}
    /\ successful_tiles' = IF result[t] = "ok" THEN Append(successful_tiles, t)
                           ELSE successful_tiles
    /\ failed_count' = FailedCountAfter(failed_count, result[t])
    /\ UNCHANGED <<g_pc, entry, run, max_workers, fut, result, files, requested,
                   callFile, gen_result, stitch_raised,
                   cleanup, prev_ok>>

\* The loop has seen every future and the with block has joined the threads.
ReturnAtFirstCompleted == collected # {}
AllCompleted ==
    /\ \A t \in DOMAIN fut : t \in collected
    /\ \A t \in DOMAIN fut : fut[t] = "done"

DownloadAllTilesReturn ==
    /\ g_pc = "collect"
    /\ AllCompleted
    /\ g_pc' = "returned"
    /\ UNCHANGED <<entry, run, max_workers, fut, result, collected, successful_tiles,
                   failed_count, files, requested, callFile, gen_result, stitch_raised,
                   cleanup, prev_ok>>

(***************************************************************************)
(* generate_complete_world_map: download_all_tiles, stitch_world_map, and  *)
(* in the finally block shutil.rmtree(tiles_dir) with its error swallowed. *)
(***************************************************************************)
\* if not successful_tiles
NoTilesNever(fetched) == FALSE
NoTiles(fetched) == fetched = <<>>

\* if not successful_tiles: return False; success = self.stitch_world_map(...)
\* stitch_world_map returns True or raises (the except clause returns False).
GenerateStitch ==
    /\ g_pc = "returned" /\ entry = "generate"
    /\ IF NoTiles(successful_tiles)
       THEN gen_result' = "False" /\ stitch_raised' = FALSE
       ELSE \E write \in WriteOf(server) :
               /\ stitch_raised' = (write # "written")
               /\ gen_result' = IF write = "written" THEN "True" ELSE "False"
    /\ g_pc' = "cleanup"
    /\ UNCHANGED <<entry, run, max_workers, fut, result, collected, successful_tiles,
                   failed_count, files, requested, callFile, cleanup, prev_ok>>

\* shutil.rmtree: the files outside keep are removed.
RemoveTreeNoop(fs, keep) == fs
RemoveTree(fs, keep) == [t \in DOMAIN fs |-> IF t \in keep THEN fs[t] ELSE 0]

\* rmtree removes the whole directory, or raises part way and leaves the rest.
\* The function returns after it: its locals and those of download_all_tiles end.
GenerateCleanup ==
    /\ g_pc = "cleanup"
    /\ \E keep \in SUBSET {t \in DOMAIN files : files[t] # 0} :
         \E ok \in BOOLEAN :
            /\ ok => keep = {}
            /\ files' = RemoveTree(files, keep)
            /\ cleanup' = IF ok THEN "removed" ELSE "failed"
    /\ g_pc' = "finished"
    /\ prev_ok' = {t \in DOMAIN result : result[t] = "ok"}
    /\ fut' = [t \in DOMAIN fut |-> "new"]
    /\ result' = [t \in DOMAIN fut |-> "none"]
    /\ collected' = {} /\ successful_tiles' = <<>> /\ failed_count' = 0
    /\ requested' = {} /\ callFile' = [t \in DOMAIN fut |-> 0]
    /\ UNCHANGED <<entry, run, max_workers, gen_result, stitch_raised>>

\* The next run with the same date, zoom and output directory.
GenerateAgain ==
    /\ g_pc = "finished" /\ run < MaxRuns
    /\ run' = run + 1
    /\ g_pc' = "tiles"
    /\ gen_result' = "none" /\ stitch_raised' = FALSE
    /\ cw_pc' = "loop" /\ cw_x' = 0 /\ cw_y' = 0 /\ tiles' = <<>>
    /\ UNCHANGED <<cw_zoom, entry, max_workers, fut, result, collected, successful_tiles,
                   failed_count, files, requested, callFile, cleanup, prev_ok>>

(***************************************************************************)
(* The single-tile fetches, one call each.  The arguments are valid, name  *)
(* a layer the class does not know, or give None for the output path.      *)
(***************************************************************************)
FetchFns == {"download_tile", "download_single_tile", "fetch_wmts_tile", "export_tile"}
FetchArgs == {"valid", "unknown_layer", "bad_path"}
Bodies == {"image", "garbage"}

FIdle ==
    /\ f_pc = "idle" /\ f_fn = "none" /\ f_arg = "valid" /\ f_file = 0
    /\ f_net = "none" /\ f_write = "none" /\ f_body = "none"
    /\ f_requested = FALSE /\ f_result = "none"

FCall(fn, arg, file) ==
    /\ f_pc = "call" /\ f_fn = fn /\ f_arg = arg /\ f_file = file
    /\ f_net = "none" /\ f_write = "none" /\ f_body = "none"
    /\ f_requested = FALSE /\ f_result = "none"

FetchWmtsTileUnchecked(net) == IF NetRaised(net) THEN "None" ELSE "content"

\* fetch_wmts_tile: response.raise_for_status() raises for 400 <= status < 600;
\* both except clauses return None.  "content" | "None"
FetchWmtsTile(net) ==
    IF NetRaised(net) THEN "None"
    ELSE IF StatusCode(net) >= 400 THEN "None"
    ELSE "content"

\* The body of the loop of export_wmts_image: Image.open(BytesIO(...)) raises
\* NameError when BytesIO was never imported, and on bytes that are no image.
ExportTile(net, body, imports) ==
    IF NetRaised(net) THEN "fail"
    ELSE IF StatusCode(net) = 200
         THEN (IF imports /\ body = "image" THEN "ok" ELSE "fail")
         ELSE "fail"

\* <<what the call reports: "success" | "failed" | "raised", whether it sent a request>>
FetchOnce(fn, arg, file, net, write, body, imports) ==
    CASE fn = "download_tile" ->
           IF arg = "bad_path" THEN <<"failed", FALSE>>
           ELSE LET d == DownloadTile(file, net, write)
                IN <<CASE d[1] = "ok" -> "success"
                       [] d[1] = "fail" -> "failed"
                       [] OTHER -> "raised", d[3]>>
      [] fn = "download_single_tile" ->
           LET r == DownloadSingleTile(
                       IF arg = "unknown_layer" THEN "no_such_layer" ELSE "terra_true_color",
                       net, IF arg = "bad_path" THEN "oserror" ELSE write)
           IN <<CASE r = "True" -> "success"
                  [] r = "False" -> "failed"
                  [] OTHER -> "raised", r # "raised">>
      [] fn = "fetch_wmts_tile" ->
           <<IF FetchWmtsTile(net) = "content" THEN "success" ELSE "failed", TRUE>>
      [] OTHER ->
           <<IF ExportTile(net, body, imports) = "ok" THEN "success" ELSE "failed", TRUE>>

FetchStep ==
    /\ f_pc = "call"
    /\ \E net \in NetOf(server), write \in WriteOf(server), body \in Bodies :
         LET r == FetchOnce(f_fn, f_arg, f_file, net, write, body, main_imports)
         IN /\ f_net' = net /\ f_write' = write /\ f_body' = body
            /\ f_result' = r[1] /\ f_requested' = r[2]
    /\ f_pc' = "done"
    /\ UNCHANGED <<f_fn, f_arg, f_file>>

(***************************************************************************)
(* Composition.  The canvas is kept cell by cell, a cell being the         *)
(* tile_size x tile_size square of one coordinate: "bg" for the background *)
(* colour, else the tile whose pixels were pasted there last.  A fetched   *)
(* tile holds a 256 x 256 image, a 512 x 512 image, or bytes PIL rejects.  *)
(***************************************************************************)
\* self.tile_size = 256
tile_size == 256
TileKinds == {"tile256", "tile512", "corrupt"}
ImageSize(kind) == IF kind = "tile512" THEN 512 ELSE 256

\* Image.paste(im, (left, upper)): the whole image goes on the canvas from that
\* corner on, cut at the canvas border.  cx, cy: the corner in cells.
PasteAt(canvas, cx, cy, t, size) ==
    LET span == (size + tile_size - 1) \div tile_size
    IN [c \in DOMAIN canvas |->
          IF c[1] >= cx /\ c[1] < cx + span /\ c[2] >= cy /\ c[2] < cy + span
          THEN t ELSE canvas[c]]

SeqRange(seq) == {seq[i] : i \in 1..Len(seq)}
MinOf(S) == CHOOSE m \in S : \A n \in S : m <= n
MaxOf(S) == CHOOSE m \in S : \A n \in S : m >= n

\* The functions that compose a mosaic of the whole grid: stitch_world_map, and
\* create_composite_image of direct-gibs-downloader.py, which has the same
\* canvas, the same paste loop and the same unguarded save.
FullCoverage == {"stitch_world_map", "create_composite_image"}

\* The corner of the canvas in tile coordinates: (0, 0) for a full-coverage
\* mosaic, (min_x, min_y) of the tiles given for _compose_frame.
Origin(fn, ts) ==
    IF fn \in FullCoverage THEN <<0, 0>>
    ELSE <<MinOf({t[2] : t \in SeqRange(ts)}), MinOf({t[3] : t \in SeqRange(ts)})>>

\* Image.new(...): the blank canvas, indexed by the cells it holds.
NewCanvasFitted(fn, z, ts) ==
    LET xs == {t[2] : t \in SeqRange(ts)}
        ys == {t[3] : t \in SeqRange(ts)}
    IN [c \in (0..(MaxOf(xs) - MinOf(xs))) \X (0..(MaxOf(ys) - MinOf(ys))) |-> "bg"]
NewCanvas(fn, z, ts) ==
    IF fn \in FullCoverage
    THEN [c \in (0..(MaxTile(z) - 1)) \X (0..(MaxTile(z) - 1)) |-> "bg"]
    ELSE LET xs == {t[2] : t \in SeqRange(ts)}
             ys == {t[3] : t \in SeqRange(ts)}
         IN [c \in (0..(MaxOf(xs) - MinOf(xs))) \X (0..(MaxOf(ys) - MinOf(ys))) |-> "bg"]

\* Whether opening and pasting the tile goes through: _compose_frame reads the
\* bytes through io.BytesIO, a NameError when io was never imported.
Pastes(fn, kind, imports) ==
    /\ kind # "corrupt"
    /\ fn = "_compose_frame" => imports

\* One iteration of the paste loop on tile t.
PasteTile(canvas, fn, origin, t, kind, imports) ==
    IF Pastes(fn, kind, imports)
    THEN PasteAt(canvas, t[2] - origin[1], t[3] - origin[2], t, ImageSize(kind))
    ELSE canvas

StIdle ==
    /\ st_pc = "idle" /\ st_fn = "none" /\ st_zoom = 0 /\ st_tiles = <<>>
    /\ st_kind = NoTile /\ st_i = 0 /\ world_map = NoTile /\ tiles_placed = 0
    /\ st_result = "none"

StCall(fn, z, ts, kinds) ==
    /\ st_pc = "call" /\ st_fn = fn /\ st_zoom = z /\ st_tiles = ts
    /\ st_kind = kinds /\ st_i = 0 /\ world_map = NoTile /\ tiles_placed = 0
    /\ st_result = "none"

\* if not successful_tiles: return False (None in _compose_frame); Image.new(...)
StitchEnter ==
    /\ st_pc = "call"
    /\ IF st_tiles = <<>>
       THEN /\ st_pc' = "returned"
            /\ st_result' = IF st_fn \in FullCoverage THEN "False" ELSE "None"
            /\ UNCHANGED <<world_map, st_i>>
       ELSE /\ st_pc' = "paste"
            /\ world_map' = NewCanvas(st_fn, st_zoom, st_tiles)
            /\ st_i' = 1
            /\ UNCHANGED st_result
    /\ UNCHANGED <<st_fn, st_zoom, st_tiles, st_kind, tiles_placed>>

\* for z, x, y, tile_path in successful_tiles: try: open, paste except: continue
StitchPaste ==
    /\ st_pc = "paste"
    /\ LET t == st_tiles[st_i]
       IN /\ world_map' = PasteTile(world_map, st_fn, Origin(st_fn, st_tiles), t,
                                    st_kind[t], main_imports)
          /\ tiles_placed' = IF Pastes(st_fn, st_kind[t], main_imports)
                             THEN tiles_placed + 1 ELSE tiles_placed
    /\ st_i' = st_i + 1
    /\ st_pc' = IF st_i = Len(st_tiles) THEN "save" ELSE "paste"
    /\ UNCHANGED <<st_fn, st_zoom, st_tiles, st_kind, st_result>>

\* world_map.save(output_path, ...) then return True: an OSError of save leaves
\* stitch_world_map as an exception; _compose_frame catches it and returns None.
StitchSave ==
    /\ st_pc = "save"
    /\ \E write \in WriteOf(server) :
         IF write = "written"
         THEN /\ st_pc' = "returned"
              /\ st_result' = IF st_fn \in FullCoverage THEN "True" ELSE "path"
         ELSE IF st_fn \in FullCoverage
              THEN st_pc' = "raised" /\ st_result' = "none"
              ELSE st_pc' = "returned" /\ st_result' = "None"
    /\ UNCHANGED <<st_fn, st_zoom, st_tiles, st_kind, st_i, world_map, tiles_placed>>

(***************************************************************************)
(* generate_frames: for each date the tiles are fetched, composed into a   *)
(* frame, the frame uploaded and its local file deleted.  The whole body   *)
(* is in one try block whose except clause returns [].                     *)
(***************************************************************************)
\* Largest number of dates given to generate_frames.
MaxFrameDates == 3
\* Largest number of tile coordinates of the bounding box.
MaxFrameTiles == 2

FrameDates == 1..MaxFrameDates

\* fput_object went through, raised S3Error, or raised anything else (the
\* endpoint is unreachable, the file is gone).
UploadOutcomes == {"stored", "s3error", "other_error"}
\* os.unlink(frame_path) went through or raised OSError.
UnlinkOutcomes == {"deleted", "oserror"}

\* _upload_to_storage: the URL, None on S3Error; any other exception leaves it.
\* "url" | "None" | "raised"
UploadToStorage(outcome) ==
    CASE outcome = "stored" -> "url"
      [] outcome = "s3error" -> "None"
      [] OTHER -> "raised"

\* _compose_frame as generate_frames sees it: the path, or None when the save
\* of the frame raised.
ComposeFrameResult(write) == IF write = "written" THEN "path" ELSE "None"

GfIdle ==
    /\ gf_pc = "idle" /\ gf_dates = <<>> /\ gf_i = 0 /\ frame_urls = <<>>
    /\ uploaded = <<>> /\ gf_result = <<>>

GfCall(dates) ==
    /\ gf_pc = "loop" /\ gf_dates = dates /\ gf_i = 1 /\ frame_urls = <<>>
    /\ uploaded = <<>> /\ gf_result = <<>>

\* One iteration of "for date in dates".  An exception of the upload or of the
\* unlink reaches the except clause of generate_frames: return [].
GenerateFramesDate ==
    /\ gf_pc = "loop" /\ gf_i <= Len(gf_dates)
    /\ \E nets \in [1..MaxFrameTiles -> NetOf(server)], write \in WriteOf(server),
          upload \in UploadOutcomes, unlink \in UnlinkOutcomes :
          LET date == gf_dates[gf_i]
              frame_tiles == {k \in 1..MaxFrameTiles : FetchWmtsTile(nets[k]) = "content"}
              composed == frame_tiles # {} /\ ComposeFrameResult(write) = "path"
              frame_url == UploadToStorage(upload)
          IN IF ~composed
             THEN /\ gf_i' = gf_i + 1
                  /\ UNCHANGED <<gf_pc, frame_urls, uploaded, gf_result>>
             ELSE /\ uploaded' = IF upload = "stored" THEN Append(uploaded, date)
                                 ELSE uploaded
                  /\ IF frame_url = "raised" \/ unlink = "oserror"
                     THEN /\ gf_pc' = "returned" /\ gf_result' = <<>>
                          /\ frame_urls' = IF frame_url = "url"
                                           THEN Append(frame_urls, date)
                                           ELSE frame_urls
                          /\ UNCHANGED gf_i
                     ELSE /\ frame_urls' = IF frame_url = "url"
                                           THEN Append(frame_urls, date)
                                           ELSE frame_urls
                          /\ gf_i' = gf_i + 1
                          /\ UNCHANGED <<gf_pc, gf_result>>
    /\ UNCHANGED gf_dates

\* return frame_urls
GenerateFramesReturn ==
    /\ gf_pc = "loop" /\ gf_i > Len(gf_dates)
    /\ gf_pc' = "returned" /\ gf_result' = frame_urls
    /\ UNCHANGED <<gf_dates, gf_i, frame_urls, uploaded>>

(***************************************************************************)
(* The encoder entry points of animation-video-generator.py.  ffmpeg is an *)
(* external program: it is there, missing (FileNotFoundError) or there but *)
(* not executable (PermissionError); a run of it that fails may or may not *)
(* have written the file it was asked for.                                 *)
(***************************************************************************)
\* Largest number of .jpg files in the frames directory.
MaxFrames == 2

FfmpegStates == {"present", "absent", "not_executable"}
\* How one run of ffmpeg ends: return code 0 with the file written, or a
\* non-zero code with nothing written or with a partial file left.
RunOutcomes == {"ok", "failed_clean", "failed_partial"}

\* subprocess.run([...], check=True) under "except CalledProcessError" alone, and
\* under "except (CalledProcessError, FileNotFoundError)":
\* "done" | "False" | "raised"
RunGuarded(tool, outcome, catchesNotFound) ==
    CASE tool = "absent" -> IF catchesNotFound THEN "False" ELSE "raised"
      [] tool = "not_executable" -> "raised"
      [] OTHER -> IF outcome = "ok" THEN "done" ELSE "False"

\* The file a run of ffmpeg leaves at the path it writes to.
FileAfter(before, tool, outcome) ==
    IF tool # "present" THEN before
    ELSE CASE outcome = "ok" -> "complete"
           [] outcome = "failed_partial" -> "partial"
           [] OTHER -> before

\* The return code of the run, when ffmpeg ran at all.
ExitOf(tool, outcome) ==
    IF tool # "present" THEN "none" ELSE IF outcome = "ok" THEN "zero" ELSE "nonzero"

EncIdle ==
    /\ enc_pc = "idle" /\ enc_fn = "none" /\ frames_dir_exists = FALSE /\ n_frames = 0
    /\ ffmpeg = "present" /\ palette_png = "none" /\ output_file = "none"
    /\ enc_events = <<>> /\ enc_exit = "none" /\ enc_result = "none"

EncCall(fn, dir, n, tool, palette) ==
    /\ enc_pc = "call" /\ enc_fn = fn /\ frames_dir_exists = dir /\ n_frames = n
    /\ ffmpeg = tool /\ palette_png = palette /\ output_file = "none"
    /\ enc_events = <<>> /\ enc_exit = "none" /\ enc_result = "none"

EncFrame == <<enc_fn, frames_dir_exists, n_frames, ffmpeg>>

\* if not os.path.exists(frames_dir): return False
EncEnter ==
    /\ enc_pc = "call"
    /\ IF ~frames_dir_exists
       THEN enc_pc' = "done" /\ enc_result' = "False"
       ELSE /\ enc_pc' = IF enc_fn = "create_video_from_frames" THEN "check" ELSE "list"
            /\ UNCHANGED enc_result
    /\ UNCHANGED <<EncFrame, palette_png, output_file, enc_events, enc_exit>>

\* create_video_from_frames: subprocess.run(['ffmpeg', '-version'], check=True)
\* under except (CalledProcessError, FileNotFoundError)
CheckFfmpeg ==
    /\ enc_pc = "check"
    /\ enc_events' = Append(enc_events, "version")
    /\ LET r == RunGuarded(ffmpeg, "ok", TRUE)
       IN /\ enc_pc' = IF r = "done" THEN "list" ELSE "done"
          /\ enc_result' = IF r = "done" THEN enc_result ELSE r
    /\ UNCHANGED <<EncFrame, palette_png, output_file, enc_exit>>

\* frame_files = sorted([... os.listdir(frames_dir) ...]); if not frame_files
ListFrames ==
    /\ enc_pc = "list"
    /\ enc_events' = Append(enc_events, "listdir")
    /\ IF n_frames = 0
       THEN enc_pc' = "done" /\ enc_result' = "False"
       ELSE /\ enc_pc' = IF enc_fn = "create_video_from_frames" THEN "encode"
                         ELSE "palettegen"
            /\ UNCHANGED enc_result
    /\ UNCHANGED <<EncFrame, palette_png, output_file, enc_exit>>

\* create_video_from_frames: subprocess.run(cmd, check=True); return True
EncodeVideo ==
    /\ enc_pc = "encode"
    /\ \E outcome \in RunOutcomes :
          LET r == RunGuarded(ffmpeg, outcome, FALSE)
          IN /\ output_file' = FileAfter(output_file, ffmpeg, outcome)
             /\ enc_exit' = ExitOf(ffmpeg, outcome)
             /\ enc_result' = IF r = "done" THEN "True" ELSE r
    /\ enc_events' = Append(enc_events, "encode")
    /\ enc_pc' = "done"
    /\ UNCHANGED <<EncFrame, palette_png>>

\* create_gif_from_frames: subprocess.run(cmd, check=True), writing palette.png
GeneratePalette ==
    /\ enc_pc = "palettegen"
    /\ \E outcome \in RunOutcomes :
          LET r == RunGuarded(ffmpeg, outcome, FALSE)
          IN /\ palette_png' = FileAfter(palette_png, ffmpeg, outcome)
             /\ enc_exit' = ExitOf(ffmpeg, outcome)
             /\ enc_pc' = IF r = "done" THEN "paletteuse" ELSE "done"
             /\ enc_result' = IF r = "done" THEN enc_result ELSE r
    /\ enc_events' = Append(enc_events, "palettegen")
    /\ UNCHANGED <<EncFrame, output_file>>

\* subprocess.run(cmd2, check=True); if os.path.exists('palette.png'):
\* os.remove('palette.png'); return True
EncodeGif ==
    /\ enc_pc = "paletteuse"
    /\ \E outcome \in RunOutcomes :
          LET r == RunGuarded(ffmpeg, outcome, FALSE)
          IN /\ output_file' = FileAfter(output_file, ffmpeg, outcome)
             /\ enc_exit' = ExitOf(ffmpeg, outcome)
             /\ palette_png' = IF r = "done" THEN "none" ELSE palette_png
             /\ enc_result' = IF r = "done" THEN "True" ELSE r
    /\ enc_events' = Append(enc_events, "paletteuse")
    /\ enc_pc' = "done"
    /\ UNCHANGED EncFrame

(***************************************************************************)
(* create_animation_frames.  An image file is named                        *)
(* <prefix>_<date>_<a>_<b>.jpg: the path is kept as <<prefix, date>>, the   *)
(* order of two paths is the order of their strings, which compares the    *)
(* prefixes first, and parts[-3] of the name is the date.                  *)
(***************************************************************************)
\* for i, img_path in enumerate(image_files[:30])
FrameLimit == 30

\* The prefixes of the file names found in images_dir.
Prefixes == {1, 2}
ImageFiles == Prefixes \X FrameDates

\* img_date = parts[-3]
ImgDate(img_path) == img_path[2]

\* The order of str on two paths.
PathLeq(p, q) == p[1] < q[1] \/ (p[1] = q[1] /\ p[2] <= q[2])

\* image_files = glob.glob(...); image_files.sort()
RECURSIVE SortFiles(_)
SortFiles(S) ==
    IF S = {} THEN <<>>
    ELSE LET first == CHOOSE p \in S : \A q \in S : PathLeq(p, q)
         IN <<first>> \o SortFiles(S \ {first})

\* if start_date and end_date: keep the files with start_date <= img_date <=
\* end_date.  0 stands for None and for the empty string.
RECURSIVE FilterRange(_, _, _)
FilterRange(listing, date_from, date_to) ==
    IF listing = <<>> THEN <<>>
    ELSE LET rest == FilterRange(Tail(listing), date_from, date_to)
         IN IF date_from # 0 /\ date_to # 0
               /\ ~(date_from <= ImgDate(Head(listing)) /\ ImgDate(Head(listing)) <= date_to)
            THEN rest
            ELSE <<Head(listing)>> \o rest

\* image_files[:30]
FirstFrames(listing) ==
    IF Len(listing) <= FrameLimit THEN listing ELSE SubSeq(listing, 1, FrameLimit)

AfIdle == af_pc = "idle" /\ image_files = <<>> /\ af_i = 0 /\ anim_frames = <<>>

\* The state when the loop is entered: the listing sorted and filtered.
AfCall(found, date_from, date_to) ==
    /\ af_pc = "loop"
    /\ image_files = FilterRange(SortFiles(found), date_from, date_to)
    /\ af_i = 0 /\ anim_frames = <<>>

\* One iteration: create_enhanced_world_map(img_path, anim_dir,
\* f"{img_date}_frame_{i:03d}")
AnimationFrame ==
    /\ af_pc = "loop" /\ af_i < Len(FirstFrames(image_files))
    /\ anim_frames' = Append(anim_frames, <<ImgDate(FirstFrames(image_files)[af_i + 1]), af_i>>)
    /\ af_i' = af_i + 1
    /\ UNCHANGED <<af_pc, image_files>>

AnimationReturn ==
    /\ af_pc = "loop" /\ af_i >= Len(FirstFrames(image_files))
    /\ af_pc' = "done"
    /\ UNCHANGED <<image_files, af_i, anim_frames>>

(***************************************************************************)
(* The exporter's WMTS path: export_wmts_image plans the tiles of a        *)
(* bounding box, downloads them one after the other and hands the images   *)
(* it got to stitch_tiles.                                                 *)
(***************************************************************************)
MaxExportTiles == 4

\* the keys of self.layers
ExportLayerKeys == {"terra_true_color", "terra_false_color", "terra_bands721",
                    "terra_aerosol", "terra_lst", "terra_snow", "aqua_true_color",
                    "viirs_true_color"}

\* regions of export_region_image: [min_lon, min_lat, max_lon, max_lat]
Regions == {<<-180, -90, 180, 90>>, <<-140, 20, -50, 70>>, <<-15, 35, 40, 70>>,
            <<60, 10, 150, 55>>, <<-20, -35, 55, 35>>, <<-85, -55, -35, 15>>,
            <<110, -45, 155, -10>>, <<-180, 60, 180, 90>>, <<-180, -90, 180, -60>>}
Widths == {256, 512, 1024}
Heights == {256, 512}

\* the keys of zoom_resolutions; its values are 1.40625 / 2^zoom = 360 / (256 * 2^zoom)
ZoomResolutions == 0..5

\* res <= target_res with target_res = max(lon_span / width, lat_span / height)
ResolutionFits(zoom, bbox, width, height) ==
    \/ 360 * width <= (bbox[3] - bbox[1]) * tile_size * Pow2(zoom)
    \/ 360 * height <= (bbox[4] - bbox[2]) * tile_size * Pow2(zoom)

calculate_optimal_zoom(bbox, width, height) ==
    LET fits == {zoom \in ZoomResolutions : ResolutionFits(zoom, bbox, width, height)}
    IN IF fits = {} THEN 5
       ELSE IF MinOf(fits) - 1 > 0 THEN MinOf(fits) - 1 ELSE 0

Max2(a, b) == IF a >= b THEN a ELSE b
Min2(a, b) == IF a <= b THEN a ELSE b

\* for x in range(x_min, x_max + 1): for y in range(y_min, y_max + 1)
get_tiles_for_bbox(bbox, zoom_level) ==
    LET max_tile == Pow2(zoom_level)
        x_min == Max2(0, ((bbox[1] + 180) * max_tile) \div 360)
        x_max == Min2(max_tile - 1, ((bbox[3] + 180) * max_tile) \div 360)
        y_min == Max2(0, ((90 - bbox[4]) * max_tile) \div 180)
        y_max == Min2(max_tile - 1, ((90 - bbox[2]) * max_tile) \div 180)
        nx == Max2(0, x_max - x_min + 1)
        ny == Max2(0, y_max - y_min + 1)
    IN [k \in 1..(nx * ny) |-> <<x_min + ((k - 1) \div ny), y_min + ((k - 1) % ny)>>]

\* stitch_tiles, the paste of the image at list index i (from 0): its pixel
\* offset, or "skipped" when the offset is outside the output image.
StitchOffset(i, width, height) ==
    LET cols == width \div tile_size + 1
        x == (i % cols) * tile_size
        y == (i \div cols) * tile_size
    IN IF x < width /\ y < height THEN <<x, y>> ELSE <<"skipped">>

ExIdle ==
    /\ ex_pc = "idle" /\ ex_layer = "none" /\ ex_bbox = <<>> /\ ex_width = 0
    /\ ex_height = 0 /\ ex_zoom = 0 /\ ex_tiles = <<>> /\ ex_i = 0
    /\ tile_images = <<>> /\ ex_offset = <<>> /\ ex_result = "none"

ExCall(layer_key, bbox, width, height) ==
    /\ ex_pc = "call" /\ ex_layer = layer_key /\ ex_bbox = bbox /\ ex_width = width
    /\ ex_height = height /\ ex_zoom = 0 /\ ex_tiles = <<>> /\ ex_i = 0
    /\ tile_images = <<>> /\ ex_offset = <<>> /\ ex_result = "none"

\* if layer_key not in self.layers: raise ValueError; zoom_level = ...; tiles = ...
ExportEnter ==
    /\ ex_pc = "call"
    /\ IF ex_layer \notin ExportLayerKeys
       THEN ex_pc' = "raised" /\ UNCHANGED <<ex_zoom, ex_tiles, ex_i>>
       ELSE LET zoom_level == calculate_optimal_zoom(ex_bbox, ex_width, ex_height)
            IN /\ ex_zoom' = zoom_level
               /\ ex_tiles' = get_tiles_for_bbox(ex_bbox, zoom_level)
               /\ ex_i' = 1
               /\ ex_pc' = "download"
    /\ UNCHANGED <<ex_layer, ex_bbox, ex_width, ex_height, tile_images, ex_offset,
                   ex_result>>

\* for tile_x, tile_y in tiles: try: get, open, append except: print
ExportDownload ==
    /\ ex_pc = "download" /\ ex_i <= Len(ex_tiles)
    /\ \E net \in NetOf(server), body \in Bodies :
          tile_images' = IF ExportTile(net, body, main_imports) = "ok"
                         THEN Append(tile_images, ex_tiles[ex_i]) ELSE tile_images
    /\ ex_i' = ex_i + 1
    /\ UNCHANGED <<ex_pc, ex_layer, ex_bbox, ex_width, ex_height, ex_zoom, ex_tiles,
                   ex_offset, ex_result>>

\* if tile_images: stitch_tiles(...) else: return False
ExportDownloaded ==
    /\ ex_pc = "download" /\ ex_i > Len(ex_tiles)
    /\ IF tile_images = <<>>
       THEN ex_pc' = "returned" /\ ex_result' = "False" /\ UNCHANGED ex_i
       ELSE ex_pc' = "stitch" /\ ex_i' = 0 /\ UNCHANGED ex_result
    /\ UNCHANGED <<ex_layer, ex_bbox, ex_width, ex_height, ex_zoom, ex_tiles,
                   tile_images, ex_offset>>

\* for i, (tile_x, tile_y, tile_img) in enumerate(tile_images): paste
StitchTilesStep ==
    /\ ex_pc = "stitch" /\ ex_i < Len(tile_images)
    /\ ex_offset' = Append(ex_offset,
                           StitchOffset(ex_i, ex_width, ex_height))
    /\ ex_i' = ex_i + 1
    /\ UNCHANGED <<ex_pc, ex_layer, ex_bbox, ex_width, ex_height, ex_zoom, ex_tiles,
                   tile_images, ex_result>>

\* return result.resize(...); result_image.save(output_path, quality=95); return True
ExportSave ==
    /\ ex_pc = "stitch" /\ ex_i = Len(tile_images)
    /\ \E write \in WriteOf(server) :
          IF write = "written"
          THEN ex_pc' = "returned" /\ ex_result' = "True"
          ELSE ex_pc' = "raised" /\ UNCHANGED ex_result
    /\ UNCHANGED <<ex_layer, ex_bbox, ex_width, ex_height, ex_zoom, ex_tiles, ex_i,
                   tile_images, ex_offset>>

(***************************************************************************)
(* The bounding-box planner of the ingestor, _get_tile_coordinates.  A box *)
(* is <<west, south, east, north>> in whole degrees, the order of the      *)
(* exporter's [min_lon, min_lat, max_lon, max_lat].                        *)
(***************************************************************************)
\* Largest zoom the planners are called with, besides the zoom of generate_frames.
MaxBoxZoom == 3

\* zoom = 5 in generate_frames
FrameZoom == 5

\* coordinates[:25]
CoordinateLimit == 25

\* int(v) for v = a / b, b > 0: the fraction is dropped, towards zero.
IntOf(a, b) == IF a >= 0 THEN a \div b ELSE -((-a) \div b)

BoxLats == {-90, -85, -60, -10, 0, 5, 10, 60, 85, 90}
BoxLons == {-180, -90, 0, 90, 170, 180}

\* (1.0 - math.asinh(math.tan(lat_rad)) / math.pi) / 2.0 in double precision,
\* times 2^20 with the fraction dropped.  math.tan(math.radians(90)) is
\* 1.633e16, not infinity, so the poles have finite values.
MercatorFraction(lat_deg) ==
    CASE lat_deg = -90 -> 6870130
      [] lat_deg = -85 -> 1046858
      [] lat_deg = -60 -> 744069
      [] lat_deg = -10 -> 553564
      [] lat_deg = 0 -> 524288
      [] lat_deg = 5 -> 509705
      [] lat_deg = 10 -> 495011
      [] lat_deg = 60 -> 304506
      [] lat_deg = 85 -> 1717
      [] lat_deg = 90 -> -5821554

\* deg2num: x = int((lon_deg + 180.0) / 360.0 * n), y = int(fraction * n)
deg2num(lat_deg, lon_deg, zoom) ==
    <<IntOf((lon_deg + 180) * Pow2(zoom), 360),
      IntOf(MercatorFraction(lat_deg) * Pow2(zoom), Pow2(20))>>

\* The nested loops over range(min_x, max_x + 1) and range(min_y, max_y + 1).
GridOf(min_x, max_x, min_y, max_y) ==
    LET nx == Max2(0, max_x - min_x + 1)
        ny == Max2(0, max_y - min_y + 1)
    IN [k \in 1..(nx * ny) |-> <<min_x + ((k - 1) \div ny), min_y + ((k - 1) % ny)>>]

\* coordinates[:25]
FirstCoordinates(coords) ==
    IF Len(coords) <= CoordinateLimit THEN coords ELSE SubSeq(coords, 1, CoordinateLimit)

\* min_x, max_y = deg2num(north, west); max_x, min_y = deg2num(south, east)
get_tile_coordinates(bbox, zoom) ==
    LET nw == deg2num(bbox[4], bbox[1], zoom)
        se == deg2num(bbox[2], bbox[3], zoom)
        min_x == nw[1]
        max_y == nw[2]
        max_x == se[1]
        min_y == se[2]
    IN FirstCoordinates(GridOf(min_x, max_x, min_y, max_y))

Planners == {"_get_tile_coordinates", "get_tiles_for_bbox"}

BpIdle ==
    /\ bp_pc = "idle" /\ bp_fn = "none" /\ bp_bbox = <<>> /\ bp_zoom = 0
    /\ coordinates = <<>>

BpCall(fn, bbox, zoom) ==
    /\ bp_pc = "call" /\ bp_fn = fn /\ bp_bbox = bbox /\ bp_zoom = zoom
    /\ coordinates = <<>>

\* return coordinates[:25]
GetTileCoordinates ==
    /\ bp_pc = "call" /\ bp_fn = "_get_tile_coordinates"
    /\ coordinates' = get_tile_coordinates(bp_bbox, bp_zoom)
    /\ bp_pc' = "returned"
    /\ UNCHANGED <<bp_fn, bp_bbox, bp_zoom>>

\* return tiles
GetTilesForBbox ==
    /\ bp_pc = "call" /\ bp_fn = "get_tiles_for_bbox"
    /\ coordinates' = get_tiles_for_bbox(bp_bbox, bp_zoom)
    /\ bp_pc' = "returned"
    /\ UNCHANGED <<bp_fn, bp_bbox, bp_zoom>>

(***************************************************************************)
(* main of complete-world-map-generator.py, direct-gibs-downloader.py and  *)
(* batch-world-map-generator.py, as far as the zoom is concerned.  The     *)
(* work of a run is the list of what it did to the disk, the network and   *)
(* the process table: "makedirs", "fetch", "launch".                       *)
(***************************************************************************)
\* Largest value given to --zoom.
MaxMainZoom == 6
\* Largest number of dates a batch run finds.
MaxMainDates == 2

Scripts == {"complete-world-map-generator", "direct-gibs-downloader",
            "batch-world-map-generator"}

\* The range each script documents for --zoom: "(2-5, default: 3)",
\* "Zoom level (0-5)", "(2-4, default: 2)".
SupportedZooms(script) ==
    CASE script = "complete-world-map-generator" -> 2..5
      [] script = "direct-gibs-downloader" -> 0..5
      [] script = "batch-world-map-generator" -> 2..4

\* if args.zoom < 2 or args.zoom > 5: return 1 (complete-world-map main; the
\* other two have no such test)
ZoomRejected(script, zoom) ==
    script = "complete-world-map-generator" /\ (zoom < 2 \/ zoom > 5)

MnIdle ==
    /\ mn_pc = "idle" /\ mn_script = "none" /\ mn_zoom = 0 /\ mn_dates = 0
    /\ mn_i = 0 /\ mn_work = <<>> /\ mn_exit = "none"

MnCall(script, zoom, dates) ==
    /\ mn_pc = "call" /\ mn_script = script /\ mn_zoom = zoom /\ mn_dates = dates
    /\ mn_i = 0 /\ mn_work = <<>> /\ mn_exit = "none"

MnArgs == <<mn_script, mn_zoom, mn_dates>>

\* complete-world-map main: the zoom test, then generate_complete_world_map
CompleteMainEnter ==
    /\ mn_pc = "call" /\ mn_script = "complete-world-map-generator"
    /\ IF ZoomRejected(mn_script, mn_zoom)
       THEN mn_pc' = "exited" /\ mn_exit' = "1"
       ELSE mn_pc' = "generate" /\ UNCHANGED mn_exit
    /\ UNCHANGED <<MnArgs, mn_i, mn_work>>

\* generate_complete_world_map: os.makedirs(tiles_dir), the downloads, the
\* mosaic; return 0 if success else 1
CompleteMainGenerate ==
    /\ mn_pc = "generate" /\ mn_script = "complete-world-map-generator"
    /\ mn_work' = mn_work \o <<"makedirs", "fetch">>
    /\ \E code \in {"0", "1"} : mn_exit' = code
    /\ mn_pc' = "exited"
    /\ UNCHANGED <<MnArgs, mn_i>>

\* direct-gibs main: download_and_composite at once; download_region_grid does
\* os.makedirs(output_dir) and then range(0, 2 ** zoom), a TypeError when
\* 2 ** zoom is the float of a negative zoom
DirectMainEnter ==
    /\ mn_pc = "call" /\ mn_script = "direct-gibs-downloader"
    /\ IF ZoomRejected(mn_script, mn_zoom)
       THEN mn_pc' = "exited" /\ mn_exit' = "1" /\ UNCHANGED mn_work
       ELSE /\ mn_work' = Append(mn_work, "makedirs")
            /\ IF mn_zoom < 0
               THEN mn_pc' = "raised" /\ mn_exit' = "TypeError"
               ELSE mn_pc' = "download" /\ UNCHANGED mn_exit
    /\ UNCHANGED <<MnArgs, mn_i>>

\* the requests of download_region_grid, the composite, return 0 or 1
DirectMainDownload ==
    /\ mn_pc = "download" /\ mn_script = "direct-gibs-downloader"
    /\ mn_work' = Append(mn_work, "fetch")
    /\ \E code \in {"0", "1"} : mn_exit' = code
    /\ mn_pc' = "exited"
    /\ UNCHANGED <<MnArgs, mn_i>>

\* batch main: if not available_dates: return 1; os.makedirs(args.output)
BatchMainEnter ==
    /\ mn_pc = "call" /\ mn_script = "batch-world-map-generator"
    /\ IF ZoomRejected(mn_script, mn_zoom) \/ mn_dates = 0
       THEN mn_pc' = "exited" /\ mn_exit' = "1" /\ UNCHANGED <<mn_work, mn_i>>
       ELSE /\ mn_work' = Append(mn_work, "makedirs")
            /\ mn_i' = 1
            /\ mn_pc' = "dates" /\ UNCHANGED mn_exit
    /\ UNCHANGED MnArgs

\* generate_world_map_for_date: the generator script is launched with
\* --zoom args.zoom; it returns 1 when its own zoom test fails
BatchMainDate ==
    /\ mn_pc = "dates" /\ mn_i <= mn_dates
    /\ mn_work' = Append(mn_work, "launch")
    /\ \E code \in {"0", "1"} :
          /\ ZoomRejected("complete-world-map-generator", mn_zoom) => code = "1"
          /\ mn_exit' = IF code = "1" \/ mn_exit = "1" THEN "1" ELSE "0"
    /\ mn_i' = mn_i + 1
    /\ UNCHANGED <<mn_pc, MnArgs>>

\* return 0 if failed == 0 else 1
BatchMainExit ==
    /\ mn_pc = "dates" /\ mn_i > mn_dates
    /\ mn_pc' = "exited"
    /\ UNCHANGED <<MnArgs, mn_i, mn_work, mn_exit>>

(***************************************************************************)
(* process_date_range.  A date is a day number.  The tasks asyncio.gather  *)
(* creates start in the order of the jobs; asyncio.Semaphore wakes its     *)
(* waiters first come, first served.  process_job returns a result of      *)
(* status 'success' or 'error' and "async with" releases the semaphore on  *)
(* either.                                                                 *)
(***************************************************************************)
\* Latest day of a range.
MaxRangeDay == 5

\* semaphore = asyncio.Semaphore(3)
MaxConcurrentJobs == 3

RangeDays == 1..MaxRangeDay

\* while current <= end: jobs.append(IngestionJob(date=current)); current += 1 day
JobsOfRange(start, end) == [k \in 1..(IF end >= start THEN end - start + 1 ELSE 0) |->
                              start + k - 1]

\* Semaphore.acquire goes through without waiting
SemaphoreFreeAlways(value) == TRUE
SemaphoreFree(value) == value > 0

InProgress == {i \in DOMAIN task : task[i] = "running"}
Waiting == {i \in DOMAIN task : task[i] = "waiting"}
Created == {i \in DOMAIN task : task[i] = "created"}

PrIdle ==
    /\ pr_pc = "idle" /\ pr_start = 0 /\ pr_end = 0 /\ jobs = <<>> /\ task = <<>>
    /\ semaphore = 0 /\ entered = <<>> /\ results = <<>>

PrCall(start, end) ==
    /\ pr_pc = "call" /\ pr_start = start /\ pr_end = end /\ jobs = <<>> /\ task = <<>>
    /\ semaphore = 0 /\ entered = <<>> /\ results = <<>>

\* the loop that builds jobs, Semaphore(3), the tasks of asyncio.gather
DateRangeEnter ==
    /\ pr_pc = "call"
    /\ jobs' = JobsOfRange(pr_start, pr_end)
    /\ task' = [i \in DOMAIN jobs' |-> "created"]
    /\ entered' = [i \in DOMAIN jobs' |-> 0]
    /\ results' = [i \in DOMAIN jobs' |-> "none"]
    /\ semaphore' = MaxConcurrentJobs
    /\ pr_pc' = "gather"
    /\ UNCHANGED <<pr_start, pr_end>>

\* process_with_semaphore reaches "async with semaphore": the task takes a
\* slot and enters process_job, or waits
TaskStart ==
    /\ pr_pc = "gather" /\ Created # {}
    /\ LET i == MinOf(Created)
       IN IF SemaphoreFree(semaphore) /\ Waiting = {}
          THEN /\ task' = [task EXCEPT ![i] = "running"]
               /\ semaphore' = semaphore - 1
               /\ entered' = [entered EXCEPT ![i] = @ + 1]
          ELSE /\ task' = [task EXCEPT ![i] = "waiting"]
               /\ UNCHANGED <<semaphore, entered>>
    /\ UNCHANGED <<pr_pc, pr_start, pr_end, jobs, results>>

\* a released slot goes to the task that waited longest
TaskWake ==
    /\ pr_pc = "gather" /\ Waiting # {} /\ SemaphoreFree(semaphore)
    /\ LET i == MinOf(Waiting)
       IN /\ task' = [task EXCEPT ![i] = "running"]
          /\ entered' = [entered EXCEPT ![i] = @ + 1]
    /\ semaphore' = semaphore - 1
    /\ UNCHANGED <<pr_pc, pr_start, pr_end, jobs, results>>

\* process_job returns its result, the "async with" block is left
TaskFinish(i) ==
    /\ pr_pc = "gather" /\ i \in InProgress
    /\ \E status \in {"success", "error"} : results' = [results EXCEPT ![i] = status]
    /\ task' = [task EXCEPT ![i] = "done"]
    /\ semaphore' = semaphore + 1
    /\ UNCHANGED <<pr_pc, pr_start, pr_end, jobs, entered>>

\* return results
DateRangeReturn ==
    /\ pr_pc = "gather" /\ \A i \in DOMAIN task : task[i] = "done"
    /\ pr_pc' = "returned"
    /\ UNCHANGED <<pr_start, pr_end, jobs, task, semaphore, entered, results>>

(***************************************************************************)
(* The batch run and the generator it launches, on one output directory    *)
(* over two runs.  A file name is kept as the fields its f-string is made  *)
(* of: <<prefix, date, zoom, extension>>.                                  *)
(***************************************************************************)
\* Largest number of dates of a run, largest zoom given to a run.
MaxRerunDates == 2
MaxRerunZoom == 3

\* batch main: expected_filename = f"terra_complete_world_map_{date}_z{args.zoom}.jpg"
ExpectedPath(date, zoom) == <<"terra_complete_world_map", date, zoom, "jpg">>

\* generate_complete_world_map:
\* output_filename = f"terra_complete_world_map_{date}_z{zoom_level}.jpg"
OutputPathOther(date, zoom_level) == <<"terra_world_map", date, zoom_level, "jpg">>
OutputPath(date, zoom_level) == <<"terra_complete_world_map", date, zoom_level, "jpg">>

RrIdle ==
    /\ rr_pc = "idle" /\ rr_run = 0 /\ rr_zooms = <<>> /\ rr_dates = <<>> /\ rr_i = 0
    /\ rr_files = {} /\ rr_launched = <<>> /\ rr_generated = {}

RrCall(zooms, dates, present) ==
    /\ rr_pc = "loop" /\ rr_run = 1 /\ rr_zooms = zooms /\ rr_dates = dates /\ rr_i = 1
    /\ rr_files = present /\ rr_launched = <<>> /\ rr_generated = {}

\* One iteration of the loop of batch main: the expected file is there, or the
\* generator is launched with --date, --output and --zoom; the generator exits
\* with 0 exactly when it saved its output file.
RerunDate ==
    /\ rr_pc = "loop" /\ rr_i <= Len(rr_dates)
    /\ LET date == rr_dates[rr_i]
           zoom == rr_zooms[rr_run]
       IN IF ExpectedPath(date, zoom) \in rr_files
          THEN UNCHANGED <<rr_files, rr_launched, rr_generated>>
          ELSE /\ rr_launched' = Append(rr_launched, <<rr_run, date>>)
               /\ \E saved \in BOOLEAN :
                     /\ ZoomRejected("complete-world-map-generator", zoom) => ~saved
                     /\ rr_files' = IF saved THEN rr_files \cup {OutputPath(date, zoom)}
                                    ELSE rr_files
                     /\ rr_generated' = IF saved /\ rr_run = 1
                                        THEN rr_generated \cup {date}
                                        ELSE rr_generated
    /\ rr_i' = rr_i + 1
    /\ UNCHANGED <<rr_pc, rr_run, rr_zooms, rr_dates>>

\* The run ends; the second run starts on the same directory and dates.
RerunEnd ==
    /\ rr_pc = "loop" /\ rr_i > Len(rr_dates)
    /\ IF rr_run = 1
       THEN rr_run' = 2 /\ rr_i' = 1 /\ UNCHANGED rr_pc
       ELSE rr_pc' = "returned" /\ UNCHANGED <<rr_run, rr_i>>
    /\ UNCHANGED <<rr_zooms, rr_dates, rr_files, rr_launched, rr_generated>>

(***************************************************************************)
(* monitor_progress.  The API server is outside the repository: a poll     *)
(* fails in the network, answers with another code than 200, answers 200   *)
(* with a body the function cannot read (not JSON, or a progress that is   *)
(* not a number), or answers 200 with the status of the job.               *)
(***************************************************************************)
\* Largest max_wait, and the longest a poll takes, in units of 5 seconds.
MaxWaitUnits == 3
MaxPollUnits == 1

PollOutcomes == {"connection_error", "http_error", "unreadable", "processing",
                 "completed", "failed"}

\* while time.time() - start_time < max_wait
WithinWaitInclusive(time_elapsed, wait) == time_elapsed <= wait
WithinWait(time_elapsed, wait) == time_elapsed < wait

MpIdle ==
    /\ mp_pc = "idle" /\ max_wait = 0 /\ elapsed = 0 /\ polls = <<>>
    /\ mp_requests = <<>> /\ mp_result = "none"

MpCall(wait) ==
    /\ mp_pc = "check" /\ max_wait = wait /\ elapsed = 0 /\ polls = <<>>
    /\ mp_requests = <<>> /\ mp_result = "none"

\* The loop condition; after the loop: return False
MonitorCheck ==
    /\ mp_pc = "check"
    /\ IF WithinWait(elapsed, max_wait)
       THEN mp_pc' = "poll" /\ UNCHANGED mp_result
       ELSE mp_pc' = "returned" /\ mp_result' = "False"
    /\ UNCHANGED <<max_wait, elapsed, polls, mp_requests>>

\* One pass of the loop body: self.session.get(...), the status, time.sleep(5)
MonitorPoll ==
    /\ mp_pc = "poll"
    /\ mp_requests' = Append(mp_requests, "GET")
    /\ \E outcome \in PollOutcomes, took \in 0..MaxPollUnits :
          /\ polls' = Append(polls, <<outcome, elapsed>>)
          /\ CASE outcome \in {"connection_error", "unreadable"} ->
                     mp_pc' = "raised" /\ UNCHANGED <<mp_result, elapsed>>
               [] outcome = "completed" ->
                     mp_pc' = "returned" /\ mp_result' = "True" /\ UNCHANGED elapsed
               [] outcome = "failed" ->
                     mp_pc' = "returned" /\ mp_result' = "False" /\ UNCHANGED elapsed
               [] OTHER ->
                     mp_pc' = "check" /\ elapsed' = elapsed + took + 1
                     /\ UNCHANGED mp_result
    /\ UNCHANGED max_wait

(***************************************************************************)
(* process_job.  The downloader, the processor, the uploader and the       *)
(* metadata store are collaborators behind an awaited call: the call       *)
(* returns its value or raises; store either stores the record and         *)
(* returns, or raises with nothing stored.                                 *)
(***************************************************************************)
\* Largest number of files the processor returns.
MaxProcessedFiles == 3

\* the products of schedule_daily_ingestion
Products == {"MODIS_Terra_CorrectedReflectance_TrueColor", "MODIS_Terra_Fires",
             "MOPITT_CO_Total_Column"}
JobDates == 1..2

\* for file_path in processed_files: the loop is over
UploadsDoneAfterFirst(urls, processed) == urls >= 1 \/ urls = processed
UploadsDone(urls, processed) == urls = processed

PjIdle ==
    /\ pj_pc = "idle" /\ pj_job = <<>> /\ raw_file = "none" /\ processed_files = 0
    /\ uploaded_urls = 0 /\ metadata_stored = FALSE /\ cleaned_up = FALSE
    /\ pj_status = "none"

PjCall(job) ==
    /\ pj_pc = "download" /\ pj_job = job /\ raw_file = "none" /\ processed_files = 0
    /\ uploaded_urls = 0 /\ metadata_stored = FALSE /\ cleaned_up = FALSE
    /\ pj_status = "none"

\* except Exception as e: return {'status': 'error', ...}
JobError ==
    /\ pj_pc' = "returned" /\ pj_status' = "error"

\* raw_file = await self.downloader.download(...); if not raw_file: raise
JobDownload ==
    /\ pj_pc = "download"
    /\ \E outcome \in {"file", "None", "raised"} :
          IF outcome = "file"
          THEN raw_file' = "file" /\ pj_pc' = "process" /\ UNCHANGED pj_status
          ELSE JobError /\ UNCHANGED raw_file
    /\ UNCHANGED <<pj_job, processed_files, uploaded_urls, metadata_stored, cleaned_up>>

\* processed_files = await self.processor.process(...)
JobProcess ==
    /\ pj_pc = "process"
    /\ \/ \E n \in 0..MaxProcessedFiles :
             /\ processed_files' = n
             /\ pj_pc' = "upload" /\ UNCHANGED pj_status
       \/ JobError /\ UNCHANGED processed_files
    /\ UNCHANGED <<pj_job, raw_file, uploaded_urls, metadata_stored, cleaned_up>>

\* url = await self.uploader.upload(file_path); uploaded_urls.append(url)
JobUpload ==
    /\ pj_pc = "upload" /\ ~UploadsDone(uploaded_urls, processed_files)
    /\ uploaded_urls < processed_files
    /\ \/ uploaded_urls' = uploaded_urls + 1 /\ UNCHANGED <<pj_pc, pj_status>>
       \/ JobError /\ UNCHANGED uploaded_urls
    /\ UNCHANGED <<pj_job, raw_file, processed_files, metadata_stored, cleaned_up>>

\* await self.metadata_store.store(metadata)
JobStore ==
    /\ pj_pc = "upload" /\ UploadsDone(uploaded_urls, processed_files)
    /\ \/ metadata_stored' = TRUE /\ pj_pc' = "cleanup" /\ UNCHANGED pj_status
       \/ JobError /\ UNCHANGED metadata_stored
    /\ UNCHANGED <<pj_job, raw_file, processed_files, uploaded_urls, cleaned_up>>

\* self._cleanup_files([raw_file] + processed_files), which swallows the error
\* of every unlink; return {'status': 'success', ...}
JobCleanup ==
    /\ pj_pc = "cleanup"
    /\ cleaned_up' = TRUE
    /\ pj_pc' = "returned" /\ pj_status' = "success"
    /\ UNCHANGED <<pj_job, raw_file, processed_files, uploaded_urls, metadata_stored>>

(***************************************************************************)
(* One call of stitch_world_map or _compose_frame on a list of fetched      *)
(* tiles, in every order and with every kind of tile image.                *)
(***************************************************************************)
\* The lists of distinct tiles of a grid, in every order.
DistinctSeqs(S) ==
    UNION {{q \in [1..n -> S] : \A i, j \in 1..n : i # j => q[i] # q[j]} :
             n \in 0..Cardinality(S)}

InitStitch ==
    /\ \E z \in 0..MaxZoom :
         /\ MaxTile(z) * MaxTile(z) <= MaxPoolTiles
         /\ \E fn \in FullCoverage \cup {"_compose_frame"} :
              \E ts \in DistinctSeqs(TileSet(z)) :
                 \E kinds \in [SeqRange(ts) -> TileKinds] : StCall(fn, z, ts, kinds)
    /\ CwIdle /\ RgIdle /\ GenIdle /\ FIdle /\ ExIdle /\ DcIdle /\ BIdle /\ GfIdle /\ EncIdle /\ AfIdle /\ BpIdle /\ MnIdle /\ PrIdle /\ RrIdle /\ MpIdle /\ PjIdle
    /\ server = "any" /\ main_imports \in BOOLEAN

NextStitch ==
    \/ StitchEnter /\ UNCHANGED exceptSt
    \/ StitchPaste /\ UNCHANGED exceptSt
    \/ StitchSave /\ UNCHANGED exceptSt

SpecStitch == InitStitch /\ [][NextStitch]_vars

(***************************************************************************)
(* One call of one single-tile fetch function, over every argument and     *)
(* every outcome of the request.                                           *)
(***************************************************************************)
InitFetch ==
    /\ \E fn \in FetchFns, arg \in FetchArgs, file \in {0, 1} : FCall(fn, arg, file)
    /\ CwIdle /\ RgIdle /\ GenIdle /\ StIdle /\ ExIdle /\ DcIdle /\ BIdle /\ GfIdle /\ EncIdle /\ AfIdle /\ BpIdle /\ MnIdle /\ PrIdle /\ RrIdle /\ MpIdle /\ PjIdle
    /\ server = "any" /\ main_imports \in BOOLEAN

NextFetch == FetchStep /\ UNCHANGED exceptF

SpecFetch == InitFetch /\ [][NextFetch]_vars

(***************************************************************************)
(* The thread pool: download_all_tiles called with max_workers, and        *)
(* generate_complete_world_map run again on the same arguments.            *)
(***************************************************************************)
InitPool ==
    /\ \E z \in 0..MaxZoom :
         /\ MaxTile(z) * MaxTile(z) <= MaxPoolTiles
         /\ CwCall(z)
         /\ \/ GenCall("generate", z, DefaultMaxWorkers)
            \/ \E m \in 1..MaxWorkers : GenCall("download_all_tiles", z, m)
    /\ RgIdle /\ FIdle /\ StIdle /\ ExIdle /\ DcIdle /\ BIdle /\ GfIdle /\ EncIdle /\ AfIdle /\ BpIdle /\ MnIdle /\ PrIdle /\ RrIdle /\ MpIdle /\ PjIdle
    /\ server = "any" /\ main_imports = TRUE

NextPool ==
    \/ CalculateWorldTilesStep /\ UNCHANGED exceptCw
    \/ TilesPlanned /\ UNCHANGED exceptGen
    \/ Submit /\ UNCHANGED exceptGen
    \/ \E t \in DOMAIN fut : WorkerStart(t) /\ UNCHANGED exceptGen
    \/ \E t \in DOMAIN fut : WorkerFinish(t) /\ UNCHANGED exceptGen
    \/ \E t \in DOMAIN fut : Collect(t) /\ UNCHANGED exceptGen
    \/ DownloadAllTilesReturn /\ UNCHANGED exceptGen
    \/ GenerateStitch /\ UNCHANGED exceptGen
    \/ GenerateCleanup /\ UNCHANGED exceptGen
    \/ GenerateAgain /\ UNCHANGED exceptGenCw

SpecPool == InitPool /\ [][NextPool]_vars

(***************************************************************************)
(* One run of the batch orchestrator, for every set of dates found and      *)
(* every combination of --start-date, --end-date and --limit.              *)
(***************************************************************************)
InitBatch ==
    /\ \E S \in SUBSET Dates :
          /\ Cardinality(S) <= MaxDates
          /\ \E start \in {Absent} \cup {Given(v) : v \in DateArgs},
                end \in {Absent} \cup {Given(v) : v \in DateArgs},
                lim \in {NoLimit} \cup {Given(n) : n \in 0..MaxLimit} :
                BCall(SortedDates(S), start, end, lim)
    /\ CwIdle /\ RgIdle /\ DcIdle /\ GenIdle /\ FIdle /\ StIdle /\ ExIdle /\ GfIdle /\ EncIdle /\ AfIdle /\ BpIdle /\ MnIdle /\ PrIdle /\ RrIdle /\ MpIdle /\ PjIdle
    /\ server = "any" /\ main_imports = TRUE

NextBatch ==
    \/ BatchFilter /\ UNCHANGED exceptB
    \/ BatchDate /\ UNCHANGED exceptB
    \/ BatchReport /\ UNCHANGED exceptB

SpecBatch == InitBatch /\ [][NextBatch]_vars

(***************************************************************************)
(* One call of generate_frames on any list of distinct dates, in any       *)
(* order, with every outcome of every fetch, save, upload and unlink.      *)
(***************************************************************************)
InitFrames ==
    /\ \E dates \in DistinctSeqs(FrameDates) : GfCall(dates)
    /\ CwIdle /\ RgIdle /\ DcIdle /\ GenIdle /\ FIdle /\ StIdle /\ ExIdle /\ BIdle /\ EncIdle /\ AfIdle /\ BpIdle /\ MnIdle /\ PrIdle /\ RrIdle /\ MpIdle /\ PjIdle
    /\ server = "any" /\ main_imports = TRUE

NextFrames ==
    \/ GenerateFramesDate /\ UNCHANGED exceptGf
    \/ GenerateFramesReturn /\ UNCHANGED exceptGf

SpecFrames == InitFrames /\ [][NextFrames]_vars

(***************************************************************************)
(* One call of an encoder entry point, for every state of the tool, of the *)
(* frames directory and of palette.png, and every outcome of every run.    *)
(***************************************************************************)
InitEncode ==
    /\ \E fn \in {"create_video_from_frames", "create_gif_from_frames"},
          dir \in BOOLEAN, n \in 0..MaxFrames, tool \in FfmpegStates,
          palette \in {"none", "complete"} :
          /\ ~dir => n = 0
          /\ EncCall(fn, dir, n, tool, palette)
    /\ CwIdle /\ RgIdle /\ DcIdle /\ GenIdle /\ FIdle /\ StIdle /\ ExIdle /\ BIdle
    /\ GfIdle /\ AfIdle /\ BpIdle /\ MnIdle /\ PrIdle /\ RrIdle /\ MpIdle /\ PjIdle
    /\ server = "any" /\ main_imports = TRUE

NextEncode ==
    \/ EncEnter /\ UNCHANGED exceptEnc
    \/ CheckFfmpeg /\ UNCHANGED exceptEnc
    \/ ListFrames /\ UNCHANGED exceptEnc
    \/ EncodeVideo /\ UNCHANGED exceptEnc
    \/ GeneratePalette /\ UNCHANGED exceptEnc
    \/ EncodeGif /\ UNCHANGED exceptEnc

SpecEncode == InitEncode /\ [][NextEncode]_vars

(***************************************************************************)
(* The two producers of a frame sequence: generate_frames on any list of   *)
(* distinct dates, create_animation_frames on any directory listing and    *)
(* any date range.                                                         *)
(***************************************************************************)
InitAnimation ==
    /\ \E found \in SUBSET ImageFiles, date_from, date_to \in {0} \cup FrameDates :
          AfCall(found, date_from, date_to)
    /\ CwIdle /\ RgIdle /\ DcIdle /\ GenIdle /\ FIdle /\ StIdle /\ ExIdle /\ BIdle
    /\ GfIdle /\ EncIdle /\ BpIdle /\ MnIdle /\ PrIdle /\ RrIdle /\ MpIdle /\ PjIdle
    /\ server = "any" /\ main_imports = TRUE

NextAnimation ==
    \/ AnimationFrame /\ UNCHANGED exceptAf
    \/ AnimationReturn /\ UNCHANGED exceptAf

SpecAnimation == (InitFrames \/ InitAnimation) /\ [][NextFrames \/ NextAnimation]_vars

(***************************************************************************)
(* One call of export_wmts_image, for every region and output size whose   *)
(* plan is within the bound, and every outcome of every request.           *)
(***************************************************************************)
InitExport ==
    /\ \E layer_key \in {"terra_true_color", "no_such_layer"}, bbox \in Regions,
          width \in Widths, height \in Heights :
          /\ Len(get_tiles_for_bbox(bbox, calculate_optimal_zoom(bbox, width, height)))
                <= MaxExportTiles
          /\ ExCall(layer_key, bbox, width, height)
    /\ CwIdle /\ RgIdle /\ GenIdle /\ FIdle /\ StIdle /\ DcIdle /\ BIdle /\ GfIdle /\ EncIdle /\ AfIdle /\ BpIdle /\ MnIdle /\ PrIdle /\ RrIdle /\ MpIdle /\ PjIdle
    /\ server = "any" /\ main_imports \in BOOLEAN

NextExport ==
    \/ ExportEnter /\ UNCHANGED exceptEx
    \/ ExportDownload /\ UNCHANGED exceptEx
    \/ ExportDownloaded /\ UNCHANGED exceptEx
    \/ StitchTilesStep /\ UNCHANGED exceptEx
    \/ ExportSave /\ UNCHANGED exceptEx

SpecExport == InitExport /\ [][NextExport]_vars

(***************************************************************************)
(* One call of a bounding-box planner, for every box with its corners on   *)
(* the sampled latitudes and longitudes, the poles and longitude 180       *)
(* included, and every zoom.                                               *)
(***************************************************************************)
Boxes ==
    {bbox \in BoxLons \X BoxLats \X BoxLons \X BoxLats :
        bbox[1] <= bbox[3] /\ bbox[2] <= bbox[4]}

BoxZooms == (0..MaxBoxZoom) \cup {FrameZoom}

InitBox ==
    /\ \E fn \in Planners, bbox \in Boxes, zoom \in BoxZooms : BpCall(fn, bbox, zoom)
    /\ CwIdle /\ RgIdle /\ DcIdle /\ GenIdle /\ FIdle /\ StIdle /\ ExIdle /\ BIdle
    /\ GfIdle /\ EncIdle /\ AfIdle /\ MnIdle /\ PrIdle /\ RrIdle /\ MpIdle /\ PjIdle
    /\ server = "any" /\ main_imports = TRUE

NextBox ==
    \/ GetTileCoordinates /\ UNCHANGED exceptBp
    \/ GetTilesForBbox /\ UNCHANGED exceptBp

SpecBox == InitBox /\ [][NextBox]_vars

(***************************************************************************)
(* One run of each script that takes --zoom, for every zoom given, inside  *)
(* and outside the range the script documents.                             *)
(***************************************************************************)
InitMain ==
    /\ \E script \in Scripts, zoom \in (-1)..MaxMainZoom, dates \in 0..MaxMainDates :
          /\ script # "batch-world-map-generator" => dates = 0
          /\ MnCall(script, zoom, dates)
    /\ CwIdle /\ RgIdle /\ DcIdle /\ GenIdle /\ FIdle /\ StIdle /\ ExIdle /\ BIdle
    /\ GfIdle /\ EncIdle /\ AfIdle /\ BpIdle /\ PrIdle /\ RrIdle /\ MpIdle /\ PjIdle
    /\ server = "any" /\ main_imports = TRUE

NextMain ==
    \/ CompleteMainEnter /\ UNCHANGED exceptMn
    \/ CompleteMainGenerate /\ UNCHANGED exceptMn
    \/ DirectMainEnter /\ UNCHANGED exceptMn
    \/ DirectMainDownload /\ UNCHANGED exceptMn
    \/ BatchMainEnter /\ UNCHANGED exceptMn
    \/ BatchMainDate /\ UNCHANGED exceptMn
    \/ BatchMainExit /\ UNCHANGED exceptMn

SpecMain == InitMain /\ [][NextMain]_vars

(***************************************************************************)
(* One call of process_date_range on any range of days, the empty ranges   *)
(* included.  The fair specification adds what the event loop gives: a     *)
(* task that can take a step takes it, and a job in progress ends.         *)
(***************************************************************************)
InitRange ==
    /\ \E start, end \in RangeDays : PrCall(start, end)
    /\ CwIdle /\ RgIdle /\ DcIdle /\ GenIdle /\ FIdle /\ StIdle /\ ExIdle /\ BIdle
    /\ GfIdle /\ EncIdle /\ AfIdle /\ BpIdle /\ MnIdle /\ RrIdle /\ MpIdle /\ PjIdle
    /\ server = "any" /\ main_imports = TRUE

NextRange ==
    \/ DateRangeEnter /\ UNCHANGED exceptPr
    \/ TaskStart /\ UNCHANGED exceptPr
    \/ TaskWake /\ UNCHANGED exceptPr
    \/ \E i \in RangeDays : TaskFinish(i) /\ UNCHANGED exceptPr
    \/ DateRangeReturn /\ UNCHANGED exceptPr

SpecRange == InitRange /\ [][NextRange]_vars

SpecRangeFair == SpecRange /\ WF_vars(NextRange)

(***************************************************************************)
(* Two batch runs one after the other, for every zoom of each, every       *)
(* content of the output directory before the first and every outcome of   *)
(* every launch.                                                           *)
(***************************************************************************)
InitRerun ==
    /\ \E zooms \in [1..2 -> 1..MaxRerunZoom], n \in 1..MaxRerunDates,
          present \in SUBSET {ExpectedPath(date, zoom) :
                                date \in 1..MaxRerunDates, zoom \in 1..MaxRerunZoom} :
          RrCall(zooms, [k \in 1..n |-> k], present)
    /\ CwIdle /\ RgIdle /\ DcIdle /\ GenIdle /\ FIdle /\ StIdle /\ ExIdle /\ BIdle
    /\ GfIdle /\ EncIdle /\ AfIdle /\ BpIdle /\ MnIdle /\ PrIdle /\ MpIdle /\ PjIdle
    /\ server = "any" /\ main_imports = TRUE

NextRerun ==
    \/ RerunDate /\ UNCHANGED exceptRr
    \/ RerunEnd /\ UNCHANGED exceptRr

SpecRerun == InitRerun /\ [][NextRerun]_vars

(***************************************************************************)
(* One call of monitor_progress, for every max_wait, every answer to every *)
(* poll and every duration of it.                                          *)
(***************************************************************************)
InitMonitor ==
    /\ \E wait \in 0..MaxWaitUnits : MpCall(wait)
    /\ CwIdle /\ RgIdle /\ DcIdle /\ GenIdle /\ FIdle /\ StIdle /\ ExIdle /\ BIdle
    /\ GfIdle /\ EncIdle /\ AfIdle /\ BpIdle /\ MnIdle /\ PrIdle /\ RrIdle /\ PjIdle
    /\ server = "any" /\ main_imports = TRUE

NextMonitor ==
    \/ MonitorCheck /\ UNCHANGED exceptMp
    \/ MonitorPoll /\ UNCHANGED exceptMp

SpecMonitor == InitMonitor /\ [][NextMonitor]_vars

(***************************************************************************)
(* One call of process_job, for every job and every outcome of every       *)
(* awaited call.                                                           *)
(***************************************************************************)
InitJob ==
    /\ \E product \in Products, date \in JobDates : PjCall(<<product, date>>)
    /\ CwIdle /\ RgIdle /\ DcIdle /\ GenIdle /\ FIdle /\ StIdle /\ ExIdle /\ BIdle
    /\ GfIdle /\ EncIdle /\ AfIdle /\ BpIdle /\ MnIdle /\ PrIdle /\ RrIdle /\ MpIdle
    /\ server = "any" /\ main_imports = TRUE

NextJob ==
    \/ JobDownload /\ UNCHANGED exceptPj
    \/ JobProcess /\ UNCHANGED exceptPj
    \/ JobUpload /\ UNCHANGED exceptPj
    \/ JobStore /\ UNCHANGED exceptPj
    \/ JobCleanup /\ UNCHANGED exceptPj

SpecJob == InitJob /\ [][NextJob]_vars

(***************************************************************************)
(* The two whole-map entry points with every outcome of every request:     *)
(* generate_complete_world_map and download_and_composite.                 *)
(***************************************************************************)
InitComposite ==
    /\ \E z \in 0..MaxZoom :
         /\ MaxTile(z) * MaxTile(z) <= MaxCompositeTiles
         /\ \E layer_key \in {"terra_true_color", "no_such_layer"} :
               RgCall(layer_key, z, GlobalRange(z))
    /\ dc_pc = "download" /\ dc_result = "none"
    /\ CwIdle /\ GenIdle /\ FIdle /\ StIdle /\ ExIdle /\ BIdle /\ GfIdle /\ EncIdle /\ AfIdle /\ BpIdle /\ MnIdle /\ PrIdle /\ RrIdle /\ MpIdle /\ PjIdle
    /\ server = "any" /\ main_imports = TRUE

NextComposite ==
    \/ DownloadRegionGridEnter /\ UNCHANGED exceptRg
    \/ DownloadRegionGridStep /\ UNCHANGED exceptRg
    \/ DownloadAndCompositeReturn /\ UNCHANGED exceptDc

SpecWholeMap == (InitPool \/ InitComposite) /\ [][NextPool \/ NextComposite]_vars

(***************************************************************************)
(* The planners: calculate_world_tiles for every zoom, and the grid that   *)
(* download_global_coverage walks, against an endpoint that always or      *)
(* never answers.                                                          *)
(***************************************************************************)
InitPlan ==
    /\ \/ /\ \E z \in 0..MaxZoom : CwCall(z)
          /\ RgIdle /\ server = "up"
       \/ /\ \E z \in 0..MaxZoom : RgCall("terra_true_color", z, GlobalRange(z))
          /\ server \in {"up", "down"}
          /\ CwIdle
    /\ GenIdle /\ FIdle /\ StIdle /\ ExIdle /\ DcIdle /\ BIdle /\ GfIdle /\ EncIdle /\ AfIdle /\ BpIdle /\ MnIdle /\ PrIdle /\ RrIdle /\ MpIdle /\ PjIdle /\ main_imports = TRUE

NextPlan ==
    \/ CalculateWorldTilesStep /\ UNCHANGED exceptCw
    \/ DownloadRegionGridEnter /\ UNCHANGED exceptRg
    \/ DownloadRegionGridStep /\ UNCHANGED exceptRg

SpecPlan == InitPlan /\ [][NextPlan]_vars

(***************************************************************************)
(* The fetch-all operations with every outcome of every request: the       *)
(* thread pool, and download_region_grid on any range of a small grid.     *)
(***************************************************************************)
InitGrid ==
    /\ \E z \in 0..MaxGridZoom :
         \E layer_key \in {"terra_true_color", "no_such_layer"} :
            \E range \in (0..(MaxTile(z) - 1)) \X (0..(MaxTile(z) - 1))
                          \X (0..(MaxTile(z) - 1)) \X (0..(MaxTile(z) - 1)) :
               RgCall(layer_key, z, range)
    /\ CwIdle /\ GenIdle /\ FIdle /\ StIdle /\ ExIdle /\ DcIdle /\ BIdle /\ GfIdle /\ EncIdle /\ AfIdle /\ BpIdle /\ MnIdle /\ PrIdle /\ RrIdle /\ MpIdle /\ PjIdle
    /\ server = "any" /\ main_imports = TRUE

NextGrid ==
    \/ DownloadRegionGridEnter /\ UNCHANGED exceptRg
    \/ DownloadRegionGridStep /\ UNCHANGED exceptRg

SpecFetchAll == (InitPool \/ InitGrid) /\ [][NextPool \/ NextGrid]_vars

(***************************************************************************)
(* The claims.                                                             *)
(***************************************************************************)
InGrid(z, x, y) == 0 <= x /\ x < Pow2(z) /\ 0 <= y /\ y < Pow2(z)

\* C1: for every zoom z in 0..5 the full-coverage planner (calculate_world_tiles,
\* and the index range download_global_coverage walks) yields exactly (2^z)^2
\* coordinates, pairwise distinct, each of zoom z with 0 <= x, y < 2^z.
C1_FullCoverage ==
    /\ cw_pc = "done" =>
          /\ Len(tiles) = Pow2(cw_zoom) * Pow2(cw_zoom)
          /\ Cardinality({tiles[i] : i \in 1..Len(tiles)}) = Len(tiles)
          /\ \A i \in 1..Len(tiles) :
                tiles[i][1] = cw_zoom /\ InGrid(cw_zoom, tiles[i][2], tiles[i][3])
    /\ rg_pc = "returned" =>
          /\ Len(rg_log) = Pow2(rg_zoom) * Pow2(rg_zoom)
          /\ Cardinality({<<rg_log[i][1], rg_log[i][2]>> : i \in 1..Len(rg_log)})
                = Len(rg_log)
          /\ \A i \in 1..Len(rg_log) : InGrid(rg_zoom, rg_log[i][1], rg_log[i][2])

C1_Witness == cw_pc = "done" /\ cw_zoom = MaxZoom /\ Len(tiles) = 1024

\* C2: during download_all_tiles with max_workers = m, at most m download_tile
\* calls are in flight (started and not yet returned) in every reachable state.
C2_BoundedInFlight == g_pc # "idle" => Cardinality(InFlight) <= max_workers

C2_Witness ==
    /\ entry = "download_all_tiles"
    /\ Cardinality(InFlight) = max_workers
    /\ \E t \in DOMAIN fut : fut[t] = "queued"

\* C3: download_all_tiles returns only after every planned tile was attempted and
\* produced a result, whatever the other tiles' outcomes, and no download task is
\* running when it returns.
C3_JoinAll ==
    g_pc = "returned" =>
       /\ Planned = TileSet(cw_zoom)
       /\ \A t \in Planned : fut[t] = "done" /\ result[t] \in {"ok", "fail"}
       /\ InFlight = {}

C3_Witness ==
    /\ g_pc = "returned"
    /\ \E t, u \in Planned : result[t] = "fail" /\ result[u] = "ok"

Occurrences(seq, e) == Cardinality({i \in 1..Len(seq) : seq[i] = e})
RangeTiles(range) == {<<x, y>> : x \in range[1]..range[2], y \in range[3]..range[4]}

\* C4: when a fetch-all operation returns (download_all_tiles, download_region_grid),
\* every requested coordinate has been accounted exactly once, as a success or as
\* one unit of the failure count: successes + failures = requested tiles.
C4_AccountedOnce ==
    /\ g_pc = "returned" =>
          /\ Len(successful_tiles) + failed_count = Cardinality(TileSet(cw_zoom))
          /\ \A t \in TileSet(cw_zoom) :
                Occurrences(successful_tiles, t) = (IF result[t] = "ok" THEN 1 ELSE 0)
          /\ failed_count = Cardinality({t \in TileSet(cw_zoom) : result[t] # "ok"})
    /\ rg_pc = "returned" =>
          /\ successful + failed = Cardinality(RangeTiles(rg_range))
          /\ \A c \in RangeTiles(rg_range) :
                Cardinality({i \in 1..Len(rg_log) :
                               rg_log[i][1] = c[1] /\ rg_log[i][2] = c[2]}) = 1
          /\ successful = Cardinality({i \in 1..Len(rg_log) : rg_log[i][3] = "True"})
          /\ failed = Cardinality({i \in 1..Len(rg_log) : rg_log[i][3] # "True"})

C4_Witness ==
    /\ g_pc = "returned" /\ Len(successful_tiles) = 2 /\ failed_count = 2

\* C5: if the tile file exists when download_tile is called, download_tile returns
\* success with that path, issues no network request and leaves the file unchanged.
C5_SkipExisting ==
    \A t \in DOMAIN fut :
       (fut[t] = "done" /\ callFile[t] # 0) =>
          result[t] = "ok" /\ t \notin requested /\ files[t] = callFile[t]

C5_Witness == \E t \in DOMAIN fut : fut[t] = "done" /\ callFile[t] # 0

InRun == g_pc \in {"tiles", "submit", "collect", "returned", "cleanup"}

Writers == {"download_tile", "download_single_tile"}

\* Whether the call met one of the error outcomes of a single-tile fetch.
FetchError ==
    \/ f_arg # "valid"
    \/ f_requested /\ (NetRaised(f_net) \/ StatusCode(f_net) # 200)
    \/ f_requested /\ f_fn \in Writers /\ f_write = "oserror"
    \/ f_requested /\ f_body = "garbage"

Reorderings(ts) ==
    {q \in [1..Len(ts) -> SeqRange(ts)] : \A i, j \in 1..Len(ts) : i # j => q[i] # q[j]}

\* The canvas after the paste loop has gone through the first n tiles of ts.
RECURSIVE ComposeAll(_, _, _, _, _, _)
ComposeAll(fn, z, ts, kinds, imports, n) ==
    IF n = 0 THEN NewCanvas(fn, z, ts)
    ELSE PasteTile(ComposeAll(fn, z, ts, kinds, imports, n - 1), fn, Origin(fn, ts),
                   ts[n], kinds[ts[n]], imports)

\* C8 as stated: for fetched tiles with distinct coordinates, the canvas
\* stitch_world_map and _compose_frame end with is the same for every
\* permutation of the list of tiles.
C8_OrderIndependent ==
    st_pc = "save" =>
       \A q \in Reorderings(st_tiles) :
          ComposeAll(st_fn, st_zoom, q, st_kind, main_imports, Len(q)) = world_map

C8_Witness ==
    /\ st_pc = "save" /\ st_fn = "stitch_world_map"
    /\ st_tiles = <<<<1, 1, 0>>, <<1, 0, 0>>>>
    /\ st_kind[<<1, 0, 0>>] = "tile512" /\ st_kind[<<1, 1, 0>>] = "tile256"
    /\ world_map[<<1, 0>>] = <<1, 0, 0>>
    /\ ComposeAll(st_fn, st_zoom, <<<<1, 0, 0>>, <<1, 1, 0>>>>, st_kind, main_imports,
                  2)[<<1, 0>>] = <<1, 1, 0>>

\* The tile whose coordinate is the cell c of the stitch_world_map canvas.
TileAt(c) == <<st_zoom, c[1], c[2]>>

\* C10 as stated: stitch_world_map does not raise; it reports failure only for
\* an empty list; the canvas holds imagery at exactly the coordinates of the
\* tiles it was given that decode, and background everywhere else.
C10_PartialMosaic ==
    st_fn = "stitch_world_map" =>
       /\ st_pc # "raised"
       /\ st_pc = "returned" => (st_result = "False" <=> st_tiles = <<>>)
       /\ st_pc \in {"save", "returned"} /\ st_tiles # <<>> =>
             \A c \in DOMAIN world_map :
                world_map[c] # "bg" <=>
                   (TileAt(c) \in SeqRange(st_tiles) /\ st_kind[TileAt(c)] # "corrupt")

C10_Witness ==
    /\ st_pc = "returned" /\ st_fn = "stitch_world_map" /\ st_result = "True"
    /\ st_tiles = <<<<1, 0, 0>>>> /\ st_kind[<<1, 0, 0>>] = "tile512"
    /\ world_map[<<1, 1>>] # "bg"

\* The position of a planned tile in the list get_tiles_for_bbox returned.
IndexOf(planned, t) == CHOOSE k \in 1..Len(planned) : planned[k] = t

\* C9 as stated: in export_wmts_image followed by stitch_tiles, the offset a
\* tile is pasted at depends on its (tile_x, tile_y) and not on its position in
\* the list of downloaded tiles: it is the offset the tile has when every
\* planned tile was downloaded, whichever downloads failed.
C9_OffsetByCoordinate ==
    \A k \in 1..Len(ex_offset) :
       ex_offset[k] = StitchOffset(IndexOf(ex_tiles, tile_images[k]) - 1,
                                   ex_width, ex_height)

C9_Witness ==
    /\ ex_pc = "returned" /\ ex_result = "True"
    /\ ex_bbox = <<-180, -90, 180, 90>> /\ ex_width = 1024 /\ ex_height = 512
    /\ ex_tiles = <<<<0, 0>>, <<0, 1>>, <<1, 0>>, <<1, 1>>>>
    /\ tile_images = <<<<0, 1>>, <<1, 0>>, <<1, 1>>>>
    /\ ex_offset[1] = <<0, 0>>
    /\ StitchOffset(IndexOf(ex_tiles, <<0, 1>>) - 1, ex_width, ex_height) = <<256, 0>>

\* C11: generate_complete_world_map and download_and_composite report success
\* when at least one tile was fetched and no stage raised, however many other
\* tiles failed, and report failure when no tile was fetched.
C11_PartialSuccess ==
    /\ (entry = "generate" /\ g_pc = "cleanup") =>
          LET fetched == {t \in DOMAIN result : result[t] = "ok"}
          IN /\ fetched = {} => gen_result = "False"
             /\ (fetched # {} /\ ~stitch_raised) => gen_result = "True"
    /\ (dc_pc = "finished" /\ rg_pc = "returned") =>
          /\ TileFiles(rg_log) = {} => dc_result = "False"
          /\ (TileFiles(rg_log) # {} /\ dc_result # "raised") => dc_result = "True"

C11_Witness ==
    /\ entry = "generate" /\ g_pc = "cleanup" /\ gen_result = "True"
    /\ Cardinality({t \in DOMAIN result : result[t] = "ok"}) = 1
    /\ failed_count = 3

\* The run of the batch orchestrator got past its loop.
BatchEnded == b_pc \in {"returned", "raised"} /\ available_dates # <<>>

\* C12 as stated: with no date left to process after the filters, the success
\* rate is computed as 0 and the run completes with its final report, without a
\* division by zero.
C12_EmptyRunReports ==
    (BatchEnded /\ dates_to_process = <<>>) =>
       b_pc = "returned" /\ b_report = "full" /\ b_exit # "ZeroDivisionError"

C12_Witness ==
    /\ b_pc = "raised" /\ b_exit = "ZeroDivisionError" /\ dates_to_process = <<>>
    /\ available_dates = <<<<0, 0>>>> /\ start_date = Given(<<1, 1>>)
    /\ end_date = Absent /\ limit = NoLimit

\* The candidates between the two bounds, both inclusive; an absent bound
\* excludes nothing.
InRange(d) ==
    /\ start_date.given => LexLeq(start_date.val, d)
    /\ end_date.given => LexLeq(d, end_date.val)

\* C13 as stated: the dates processed are exactly the candidates d with
\* start <= d <= end as strings, in ascending order, cut to the first L whenever
\* a limit L >= 0 is given.
C13_FilterExact ==
    (b_pc \in {"loop", "returned", "raised"} /\ available_dates # <<>>
       /\ (start_date.given => start_date.val \in Dates)
       /\ (end_date.given => end_date.val \in Dates)) =>
       LET inRange == SelectSeq(available_dates, InRange)
       IN dates_to_process = IF limit.given THEN Prefix(inRange, limit.val) ELSE inRange

C13_Witness ==
    /\ b_pc = "loop" /\ limit = Given(0)
    /\ available_dates = <<<<0, 0>>, <<0, 1>>, <<1, 0>>>>
    /\ start_date = Given(<<0, 1>>) /\ end_date = Given(<<1, 0>>)
    /\ dates_to_process = <<<<0, 1>>, <<1, 0>>>>

\* The invocations of the generator that ended with return code 0, and the others.
Generated == {j \in 1..Len(b_invoked) : b_invoked[j][2] = "exit0"}
NotGenerated == {j \in 1..Len(b_invoked) : b_invoked[j][2] # "exit0"}

C15_LaterDatesProcessed ==
    BatchEnded =>
       /\ \A i \in 1..Len(dates_to_process) :
             \/ dates_to_process[i] \in b_skipped
             \/ \E j \in 1..Len(b_invoked) : b_invoked[j][1] = dates_to_process[i]
       /\ \A j, k \in 1..Len(b_invoked) :
             j < k => LexLess(b_invoked[j][1], b_invoked[k][1])
       /\ b_successful + b_failed = Len(dates_to_process)
       /\ b_report \in {"counts", "full"}
       /\ dates_to_process # <<>> => b_pc = "returned" /\ b_report = "full"

C15_Witness ==
    /\ b_pc = "returned" /\ Len(b_invoked) = 3 /\ b_successful = 1 /\ b_failed = 2
    /\ b_invoked[1][2] = "timeout" /\ b_invoked[2][2] = "launch_error"
    /\ b_invoked[3][2] = "exit0"

\* C16 as stated: in generate_frames a failure while processing one date (no
\* tile fetched, composition failure, upload failure of any kind, failure of
\* the deletion of the local frame file) does not halt the other dates: every
\* date is processed and the URLs produced for the other dates are returned.
C16_DateFailureIsolated ==
    gf_pc = "returned" =>
       /\ gf_i = Len(gf_dates) + 1
       /\ gf_result = uploaded

C16_Witness ==
    /\ gf_pc = "returned" /\ gf_dates = <<1, 2, 3>> /\ gf_i = 2
    /\ uploaded = <<1>> /\ frame_urls = <<1>> /\ gf_result = <<>>


(***************************************************************************)
(* The encoder.                                                            *)
(***************************************************************************)
EncDid(e) == \E i \in DOMAIN enc_events : enc_events[i] = e

EncInvoked == EncDid("encode") \/ EncDid("palettegen") \/ EncDid("paletteuse")

\* C17: when ffmpeg is absent or cannot be executed, an encode entry point
\* returns False without having listed the frame files and without having
\* attempted an encoding run, and it does not raise.
C17_MissingToolReported ==
    ffmpeg # "present" =>
        /\ ~EncDid("listdir")
        /\ ~EncInvoked
        /\ enc_pc = "done" => enc_result = "False"

\* create_gif_from_frames with frames present and no ffmpeg: the frames were
\* listed, the palette run was attempted, FileNotFoundError left the function.
C17_Witness ==
    /\ enc_pc = "done" /\ enc_fn = "create_gif_from_frames" /\ ffmpeg = "absent"
    /\ enc_events = <<"listdir", "palettegen">>
    /\ enc_result = "raised"

\* C18: in create_gif_from_frames the palette run comes before the paletted
\* encode, and once the palette run was started palette.png does not exist when
\* the function returns, whichever run failed.
C18_PaletteRemoved ==
    enc_fn = "create_gif_from_frames" =>
        /\ \A i \in DOMAIN enc_events :
              enc_events[i] = "paletteuse" =>
                  \E j \in 1..(i - 1) : enc_events[j] = "palettegen"
        /\ (enc_pc = "done" /\ EncDid("palettegen")) => palette_png = "none"

\* The palette run succeeded, the paletted encode exited non-zero, False was
\* returned and palette.png is still there.
C18_Witness ==
    /\ enc_pc = "done" /\ enc_fn = "create_gif_from_frames" /\ ffmpeg = "present"
    /\ enc_events = <<"listdir", "palettegen", "paletteuse">>
    /\ enc_exit = "nonzero" /\ enc_result = "False"
    /\ palette_png = "complete"

\* C19: when a run of the encoder exits non-zero the entry point returns False
\* and no file, partial or complete, is at the output path.
C19_NoOutputOnFailure ==
    (enc_pc = "done" /\ enc_exit = "nonzero") =>
        /\ enc_result = "False"
        /\ output_file = "none"

\* create_video_from_frames: the encode exited non-zero after it had written
\* part of the output; False was returned and the partial file is in place.
C19_Witness ==
    /\ enc_pc = "done" /\ enc_fn = "create_video_from_frames"
    /\ enc_events = <<"version", "listdir", "encode">>
    /\ enc_exit = "nonzero" /\ enc_result = "False"
    /\ output_file = "partial"


(***************************************************************************)
(* The order of the frames.                                                *)
(***************************************************************************)
\* C20: the list of URLs returned by generate_frames is in ascending date order
\* whatever the order of the dates given, and create_animation_frames gives
\* the frame indices in ascending date order whatever files it finds.
C20_FramesInDateOrder ==
    /\ gf_pc = "returned" =>
          \A i, j \in DOMAIN gf_result : i < j => gf_result[i] <= gf_result[j]
    /\ \A i, j \in DOMAIN anim_frames :
          anim_frames[i][2] < anim_frames[j][2] => anim_frames[i][1] <= anim_frames[j][1]

\* generate_frames called with the later date first returned the two URLs in
\* that order.
C20_Witness ==
    /\ gf_pc = "returned" /\ gf_dates = <<2, 1>>
    /\ gf_result = <<2, 1>>

(***************************************************************************)
(* The bounding-box planners.                                              *)
(***************************************************************************)
\* C21: every coordinate a bounding-box planner returns for a box within
\* latitudes [-90, 90] and longitudes [-180, 180] has 0 <= x < 2^zoom and
\* 0 <= y < 2^zoom, the boxes that touch longitude 180 or a pole included.
C21_CoordinatesInGrid ==
    bp_pc = "returned" =>
        \A i \in DOMAIN coordinates :
            /\ 0 <= coordinates[i][1] /\ coordinates[i][1] < Pow2(bp_zoom)
            /\ 0 <= coordinates[i][2] /\ coordinates[i][2] < Pow2(bp_zoom)

\* _get_tile_coordinates on a box whose east edge is longitude 180, at the zoom
\* of generate_frames: column 32 of a grid of 32 columns is returned.
C21_Witness ==
    /\ bp_pc = "returned" /\ bp_fn = "_get_tile_coordinates"
    /\ bp_bbox = <<170, 5, 180, 10>> /\ bp_zoom = FrameZoom
    /\ coordinates = <<<<31, 15>>, <<32, 15>>>>

\* C22: a bounding-box planner returns at most 25 coordinates, for every box
\* and zoom.
C22_AtMostTwentyFive ==
    bp_pc = "returned" => Len(coordinates) <= CoordinateLimit

\* get_tiles_for_bbox on the whole globe at zoom 3: all 64 tiles of the grid.
C22_Witness ==
    /\ bp_pc = "returned" /\ bp_fn = "get_tiles_for_bbox"
    /\ bp_bbox = <<-180, -90, 180, 90>> /\ bp_zoom = 3
    /\ Len(coordinates) = 64

(***************************************************************************)
(* The frame of a bounding box.                                            *)
(***************************************************************************)
\* The coordinates the tiles of a call were requested for: st_tiles holds the
\* ones that were fetched.
RequestedTiles == TileSet(st_zoom)

RequestedMinX == MinOf({t[2] : t \in RequestedTiles})
RequestedMinY == MinOf({t[3] : t \in RequestedTiles})
RequestedSpanX == MaxOf({t[2] : t \in RequestedTiles}) - RequestedMinX + 1
RequestedSpanY == MaxOf({t[3] : t \in RequestedTiles}) - RequestedMinY + 1

AllPlain == \A t \in SeqRange(st_tiles) : st_kind[t] = "tile256"

\* C23: the frame composed by _compose_frame is as wide and as high as the
\* span of the requested coordinates times 256, and each fetched tile is at
\* ((x - xMin) * 256, (y - yMin) * 256) with xMin, yMin the minima of the
\* requested coordinates, whichever of the requested tiles were not fetched.
C23_FrameSpansRequest ==
    (st_fn = "_compose_frame" /\ st_pc = "returned" /\ st_result = "path") =>
        /\ DOMAIN world_map = (0..(RequestedSpanX - 1)) \X (0..(RequestedSpanY - 1))
        /\ (AllPlain /\ main_imports) =>
              \A t \in SeqRange(st_tiles) :
                 LET cell == <<t[2] - RequestedMinX, t[3] - RequestedMinY>>
                 IN cell \in DOMAIN world_map /\ world_map[cell] = t

\* Of the four tiles requested at zoom 1 only (1, 1) was fetched: the frame is
\* one tile wide and high and the tile is at its corner (0, 0).
C23_Witness ==
    /\ st_fn = "_compose_frame" /\ st_pc = "returned" /\ st_result = "path"
    /\ st_zoom = 1 /\ st_tiles = <<<<1, 1, 1>>>> /\ st_kind[<<1, 1, 1>>] = "tile256"
    /\ main_imports
    /\ DOMAIN world_map = {<<0, 0>>} /\ world_map[<<0, 0>>] = <<1, 1, 1>>

(***************************************************************************)
(* The zoom given on the command line.                                     *)
(***************************************************************************)
\* C24: a run given a zoom outside the range its script supports creates no
\* directory, attempts no tile fetch and launches no per-date generation, and
\* ends as a rejection.
C24_InvalidZoomRejected ==
    (mn_script \in Scripts /\ mn_zoom \notin SupportedZooms(mn_script)) =>
        /\ mn_work = <<>>
        /\ mn_pc # "raised"
        /\ mn_pc = "exited" => mn_exit = "1"

\* direct-gibs-downloader given --zoom 6: the directory was created and the
\* tiles of the 64 x 64 grid were requested.
C24_Witness ==
    /\ mn_script = "direct-gibs-downloader" /\ mn_zoom = 6 /\ mn_pc = "exited"
    /\ mn_work = <<"makedirs", "fetch">>

(***************************************************************************)
(* The canvas of a full-coverage mosaic.                                   *)
(***************************************************************************)
\* The width and the height of a canvas in pixels.
CanvasWidth(canvas) == Cardinality({c[1] : c \in DOMAIN canvas}) * tile_size
CanvasHeight(canvas) == Cardinality({c[2] : c \in DOMAIN canvas}) * tile_size

OneJobPerDate ==
    /\ \A d \in RangeDays :
          Cardinality({i \in DOMAIN jobs : jobs[i] = d})
             = IF pr_start <= d /\ d <= pr_end THEN 1 ELSE 0
    /\ \A i \in DOMAIN jobs : jobs[i] \in RangeDays

JobsBounded ==
    /\ Cardinality(InProgress) <= MaxConcurrentJobs
    /\ pr_pc # "call" => OneJobPerDate
    /\ \A i \in DOMAIN entered : entered[i] <= 1
    /\ pr_pc = "returned" =>
          \A i \in DOMAIN jobs : entered[i] = 1 /\ results[i] \in {"success", "error"}

\* C26: at most 3 executions of process_job are in progress at any time; every
\* day of [start_date, end_date] gets exactly one job; every job is run, once,
\* as the earlier ones leave the semaphore, whether they ended in success or in
\* error.
C26_BoundedJobs ==
    /\ []JobsBounded
    /\ \A d \in RangeDays :
          (pr_pc = "call" /\ pr_start <= d /\ d <= pr_end)
             ~> (\E i \in DOMAIN jobs : jobs[i] = d /\ entered[i] = 1 /\ task[i] = "done")

\* Five jobs: the first ended in error, and the fourth, which had to wait, is
\* in progress with two others.
C26_Witness ==
    /\ pr_pc = "gather" /\ Len(jobs) = 5
    /\ results[1] = "error" /\ task[1] = "done"
    /\ task[4] = "running" /\ Cardinality(InProgress) = MaxConcurrentJobs
    /\ task[5] = "waiting"

(***************************************************************************)
(* The second batch run.                                                   *)
(***************************************************************************)
\* C27: the file the batch run looks for is the file the generator saves, so a
\* second run with the same output directory and zoom launches no generator for
\* a date whose map the first run generated.
C27_RerunSkipsGenerated ==
    (rr_run = 2 /\ rr_zooms[1] = rr_zooms[2]) =>
        \A k \in DOMAIN rr_launched :
            rr_launched[k][1] = 2 => rr_launched[k][2] \notin rr_generated

\* Run 1 generated the map of date 1 and failed on date 2; run 2, same zoom,
\* launched the generator for date 2 only.
C27_Witness ==
    /\ rr_pc = "returned" /\ rr_zooms = <<2, 2>> /\ rr_dates = <<1, 2>>
    /\ rr_generated = {1}
    /\ rr_launched = <<<<1, 1>>, <<1, 2>>, <<2, 2>>>>

(***************************************************************************)
(* The poll loop.                                                          *)
(***************************************************************************)
LastPoll == polls[Len(polls)][1]

\* C28: monitor_progress returns True only on a poll answered 200 with status
\* 'completed'; it returns False as soon as a poll reports 'failed'; no poll is
\* issued once the elapsed time has reached max_wait at the loop check, and the
\* function then returns False; every request it sends is a GET, which leaves
\* the job as it is.
C28_PollLoop ==
    /\ mp_result = "True" => (polls # <<>> /\ LastPoll = "completed")
    /\ \A k \in DOMAIN polls :
          /\ polls[k][1] \in {"completed", "failed"} =>
                (k = Len(polls) /\ mp_pc = "returned")
          /\ polls[k][1] = "failed" => mp_result = "False"
          /\ polls[k][2] < max_wait
    /\ (mp_pc \in {"check", "poll"} /\ elapsed >= max_wait) =>
          (mp_pc = "check" /\ Len(mp_requests) = Len(polls))
    /\ (mp_pc = "returned" /\ (polls = <<>> \/ LastPoll \notin {"completed", "failed"})) =>
          (mp_result = "False" /\ elapsed >= max_wait)
    /\ Len(mp_requests) = Len(polls)
    /\ \A k \in DOMAIN mp_requests : mp_requests[k] = "GET"

\* Two polls found the job still processing, the second one ended after
\* max_wait: False was returned without a third poll.
C28_Witness ==
    /\ mp_pc = "returned" /\ mp_result = "False" /\ max_wait = 3
    /\ Len(polls) = 2 /\ polls[1][1] = "processing" /\ polls[2][1] = "http_error"
    /\ elapsed >= max_wait

(***************************************************************************)
(* The counters of the batch run.                                          *)
(***************************************************************************)
\* C29: in the loop of batch main the two counters add up to the number of
\* dates handled so far, and to the number of dates to process at the end; the
\* exit code of the process is 0 exactly when failed = 0.
C29_CountersAndExit ==
    /\ b_pc = "loop" => b_successful + b_failed = b_i - 1
    /\ BatchEnded =>
          /\ b_successful + b_failed = Len(dates_to_process)
          /\ b_exit = "0" <=> b_failed = 0

\* The end-date filter left no date: nothing failed, and the run ended in the
\* division of the success rate, which exits with a code other than 0.
C29_Witness ==
    /\ b_pc = "raised" /\ b_exit = "ZeroDivisionError" /\ b_failed = 0
    /\ available_dates = <<<<1, 1>>>> /\ end_date = Given(<<0, 0>>)
    /\ start_date = Absent /\ dates_to_process = <<>>

(***************************************************************************)
(* C30: process_job never raises and always returns a result whose status  *)
(* is 'success' or 'error'; the metadata is stored only after the          *)
(* download, the processing and every upload succeeded; the local files    *)
(* are cleaned up only after the metadata was stored; 'success' is         *)
(* returned only if all of these steps completed, and on 'error' no        *)
(* metadata record is stored for the job.                                  *)
(***************************************************************************)
JobStepsBeforeStore ==
    /\ raw_file = "file"
    /\ pj_pc \in {"cleanup", "returned"}
    /\ uploaded_urls = processed_files

C30_JobSteps ==
    /\ pj_pc \in {"idle", "download", "process", "upload", "cleanup", "returned"}
    /\ pj_pc = "returned" <=> pj_status \in {"success", "error"}
    /\ metadata_stored => JobStepsBeforeStore
    /\ cleaned_up => metadata_stored
    /\ pj_status = "success" => JobStepsBeforeStore /\ metadata_stored /\ cleaned_up
    /\ pj_status = "error" => ~metadata_stored /\ ~cleaned_up

\* an upload raised after another one had returned: 'error', nothing stored
C30_Witness ==
    /\ pj_status = "error"
    /\ processed_files = 2 /\ uploaded_urls = 1
    /\ ~metadata_stored

====
